---- MODULE Spec2Model ----
(***************************************************************************)
(* Model of the Havoc pipeline orchestrator (runPipeline), the sandbox     *)
(* manager it drives (createSandbox / cleanupSandbox), the persistence     *)
(* helper updateRunStatus, the policy gate evaluator and the queue         *)
(* worker's 'failed' handler.                                              *)
(*                                                                         *)
(* One run is followed from the call of runPipeline until its promise      *)
(* settles and, for a queued job, until the worker's 'failed' handler has  *)
(* run.  Every await of runPipeline is one action; an action covers the    *)
(* awaited call and the synchronous code up to the next await (the         *)
(* emitRunEvent calls included).  Every awaited collaborator call may      *)
(* throw, and emitRunEvent may throw when a subscribed listener throws.    *)
(***************************************************************************)
EXTENDS Integers, Sequences, FiniteSets, TLC

\* ------------------------------------------------------------------ bounds
\* messages carried by the exceptions collaborators throw ("" is new Error())
ErrMsgs == {"", "boom"}
\* message of an exception thrown by a listener inside emitRunEvent
SinkMsg == "listener failed"
\* issue numbers a run may be started for
IssueNumbers == {7}
\* confidence scores calculateConfidenceScore may hand to the policy gates
ScoreSamples == {69, 70}
\* number of critical review issues selfReview may report
MaxCritical == 1

NULL == "<null>"

\* ------------------------------------------------------------ run identity
\* run ids are character sequences; NoId is the absent / empty input.runId
NoId == <<>>
ShortId == <<"a", "b", "c">>
NanoId == <<"V", "1", "S", "t", "G", "X", "R", "8", "_", "Z",
            "5", "j", "d", "H", "i", "6", "B", "-", "m", "y", "T">>
InputRunIds == {NoId, ShortId}

\* String.prototype.slice(0, n) on a character sequence
Slice0(s, n) == SubSeq(s, 1, IF Len(s) < n THEN Len(s) ELSE n)

BranchPrefixLen == 8

\* variant: the run id is appended whole
generateBranchName_Unsliced(issueNumber, id) ==
  [prefix |-> "havoc/issue-", issue |-> issueNumber, suffix |-> id]

generateBranchName(issueNumber, id) ==
  [prefix |-> "havoc/issue-", issue |-> issueNumber,
   suffix |-> Slice0(id, BranchPrefixLen)]

\* ----------------------------------------------------------- run statuses
runStatuses == <<"pending", "cloning", "analyzing", "planning", "editing",
                 "testing", "reviewing", "publishing", "done", "failed">>

Rank(s) == CHOOSE i \in 1..Len(runStatuses) : runStatuses[i] = s
Terminal == {"done", "failed"}
Stages == {"cloning", "analyzing", "planning", "editing", "testing",
           "reviewing", "publishing"}

\* --------------------------------------------------------------- variables
VARIABLES
  pc,              \* position of the run inside runPipeline / the worker
  viaQueue,        \* TRUE when runPipeline was called by the queue worker
  inputRunId,      \* input.runId (NoId when absent)
  issueNumber,     \* input.issueNumber
  row,             \* the run's persisted record
  wsDir,           \* the host workspace directory exists
  container,       \* "none" | "created" | "running" | "removed"
  sandbox,         \* runPipeline's local `sandbox` is non-null
  havocConfig,     \* runPipeline's local `havocConfig`
  defaultBranch,   \* runPipeline's local `defaultBranch`
  branchName,      \* runPipeline's local `branchName`
  taskDiffs,       \* some TaskResult carries a non-empty diff
  stagedDiff,      \* `git diff --cached` printed something
  testResults, lintResults, review, confidenceScore, policyResult,
  pr,              \* the PullRequest returned by createPullRequest
  prs,             \* pull requests opened on GitHub
  issueComments,   \* comments posted on the originating issue
  prComments,      \* comments posted on the pull request
  calls,           \* every awaited collaborator call, in order
  thrown,          \* message of the exception caught by the catch block
  ret,             \* completion of the try/catch: pending return or throw
  result,          \* how runPipeline's promise settled
  faulted          \* some collaborator call failed during this run

\* state of the components checked on their own: the planner's pure
\* functions, SandboxRunner, executeTasks and the sandbox's exec
VARIABLES
  planTasks,        \* planner: the Task[] handed to validatePlan / sortTasks
  sortedTasks,      \* planner: the Task[] sortTasks returned
  validation,       \* planner: the {valid, errors} validatePlan returned
  allowed_commands, \* runner: config.allowed_commands
  executedCommands, \* runner: SandboxRunner.executedCommands
  execCalls,        \* runner: commands handed to sandbox.exec
  runOutcome,       \* runner: how the latest run() call ended
  tasks,            \* executor: the Task[] handed to executeTasks
  taskResults,      \* executor: the `results` array of executeTasks
  sandboxOps,       \* executor: runner and code-generation calls, in order
  taskIdx,          \* executor: index of the task the loop is at
  procs,            \* exec: one record per command started in the container
  wsWrites          \* exec: writes commands made to the workspace, in order

plannerv == <<planTasks, sortedTasks, validation>>
runnerv == <<allowed_commands, executedCommands, execCalls, runOutcome>>
executorv == <<tasks, taskResults, sandboxOps, taskIdx>>
execv == <<procs, wsWrites>>

\* state of the services around a run: the confidence scorer, the
\* configuration loader shared by concurrent runs, askJson, and the server's
\* webhook and API handlers
VARIABLES
  scoreIn,          \* scorer: the arguments of calculateConfidenceScore
  scoreOut,         \* scorer: the {score, breakdown} it returned
  clone,            \* config: "host" (src/pipeline.ts) or "container" clone
  defaultConfig,    \* config: the module-level DEFAULT_HAVOC_CONFIG object
  crun,             \* config: per concurrent run, its position and locals
  askImpl,          \* askJson: which of the repository's two askJson
  retries,          \* askJson: the `retries` argument
  responses,        \* askJson: what the LLM answers to successive attempts
  attempts,         \* askJson: the calls of ask() made so far
  askOutcome,       \* askJson: how the call ended
  lastDelivery,     \* server: the webhook delivery handled last, and its run
  triggers,         \* server: requests, deliveries and jobs accepted so far
  direct,           \* server: runPipeline executions started by a handler
  waiting,          \* server: jobs waiting in the havoc-pipeline queue
  working,          \* server: runPipeline executions inside the worker
  jobsDone          \* server: jobs the worker has finished

scorerv == <<scoreIn, scoreOut>>
configv == <<clone, defaultConfig, crun>>
askv == <<askImpl, retries, responses, attempts, askOutcome>>
serverv ==
  <<lastDelivery, triggers, direct, waiting, working, jobsDone>>

\* state of the remaining components: the protected-file matcher and the
\* CLI's device-code authentication
VARIABLES
  protIn,           \* matcher: the {pattern, path} given to isFileProtected
  protOut,          \* matcher: what isFileProtected returned
  now,              \* device flow: Date.now(), in ticks
  pendingAuths,     \* device flow: the pendingAuths map, by device code
  accessTokens,     \* device flow: every token issued, live or revoked
  authorizedAt,     \* device flow: per code, who authorized it, in time
  reportedExpired,  \* device flow: codes a poll has answered 'expired' for
  lastLookup        \* device flow: the latest getPendingAuthByUserCode

protv == <<protIn, protOut>>
devicev ==
  <<now, pendingAuths, accessTokens, authorizedAt, reportedExpired, lastLookup>>
latev == <<protv, devicev>>
morev == <<scorerv, configv, askv, serverv, latev>>
units == <<plannerv, runnerv, executorv, execv, morev>>

inputs == <<viaQueue, inputRunId, issueNumber>>
host == <<wsDir, container>>
cfgv == <<havocConfig, defaultBranch, branchName>>
editv == <<taskDiffs, stagedDiff>>
evalv == <<testResults, lintResults, review, confidenceScore, policyResult>>
github == <<prs, issueComments, prComments>>
vars == <<pc, inputs, row, host, sandbox, cfgv, editv, evalv, pr, github,
          calls, thrown, ret, result, faulted, units>>

\* const runId = input.runId || nanoid()
runId == IF inputRunId = NoId THEN NanoId ELSE inputRunId

\* ------------------------------------------------------------ persistence
NoRow == [exists |-> FALSE, status |-> "pending", error |-> NULL,
          completedAt |-> FALSE, prNumber |-> 0]

RowStatus == IF row.exists THEN row.status ELSE "absent"

\* UPDATE runs SET ... WHERE id = runId: no row, no effect
updateRunStatus(r, status, error) ==
  IF ~r.exists THEN r
  ELSE [r EXCEPT !.status = status,
                 !.completedAt = IF status \in Terminal THEN TRUE ELSE @,
                 !.error = IF error # NULL /\ error # "" THEN error ELSE @]

\* --------------------------------------------------------------- call log
\* op/arg name the call, err is the error argument of a status write, st the
\* persisted status when the call was issued, res how the call ended, and by
\* tells runPipeline's calls from the queue worker's
Entry(op, arg, err, res, by) ==
  [op |-> op, arg |-> arg, err |-> err, st |-> RowStatus, res |-> res,
   by |-> by]
Log(op, arg, res) ==
  calls' = Append(calls, Entry(op, arg, NULL, res, "pipeline"))
LogStatus(status, error, res, by) ==
  calls' = Append(calls, Entry("updateRunStatus", status, error, res, by))

\* the status writes that reached the run's row, in order
IsWrite(c) == c.op = "updateRunStatus" /\ c.res = "ok" /\ c.st # "absent"
IsPipelineWrite(c) == IsWrite(c) /\ c.by = "pipeline"
AllWrites == SelectSeq(calls, IsWrite)
StatusWrites == SelectSeq(calls, IsPipelineWrite)

\* -------------------------------------------------------- results of a run
NoResult == [kind |-> "none", success |-> FALSE, confidenceScore |-> 0,
             policyPassed |-> FALSE, error |-> NULL, prNumber |-> 0]
Returns(success, score, passed, error, prNumber) ==
  [kind |-> "return", success |-> success, confidenceScore |-> score,
   policyPassed |-> passed, error |-> error, prNumber |-> prNumber]
Throws(msg) ==
  [kind |-> "throw", success |-> FALSE, confidenceScore |-> 0,
   policyPassed |-> FALSE, error |-> msg, prNumber |-> 0]


\* ------------------------------------------------------------ policy gates
DEFAULT_min_confidence == 70
DEFAULT_min_test_pass_rate == 90

DEFAULT_HAVOC_CONFIG ==
  [min_confidence |-> DEFAULT_min_confidence,
   min_test_pass_rate |-> DEFAULT_min_test_pass_rate]

Gate(name, passed, required) ==
  [name |-> name, passed |-> passed, required |-> required]

\* variant: a score equal to the threshold does not pass
checkConfidenceGate_Strict(config, score) ==
  Gate("Minimum Confidence", score > config.min_confidence, TRUE)

checkConfidenceGate(config, score) ==
  Gate("Minimum Confidence", score >= config.min_confidence, TRUE)

\* variant: the pass rate is compared even when the tests did not run
checkTestGate_NoSkip(config, results) ==
  Gate("Test Pass Rate", results.pass_rate >= config.min_test_pass_rate, TRUE)

\* variant: a test command that exited with code 0 passes the gate
checkTestGate_ExitCodeWins(config, results) ==
  IF ~results.ran \/ results.passed THEN Gate("Test Pass Rate", TRUE, TRUE)
  ELSE Gate("Test Pass Rate",
            results.pass_rate >= config.min_test_pass_rate, TRUE)

checkTestGate(config, results) ==
  IF ~results.ran THEN Gate("Test Pass Rate", TRUE, TRUE)
  ELSE Gate("Test Pass Rate",
            results.pass_rate >= config.min_test_pass_rate, TRUE)

checkTestsRanGate(results) == Gate("Tests Executed", results.ran, FALSE)

checkLintGate(results) == Gate("Lint Clean", results.passed, FALSE)

\* variant: the review gate passes whatever the review holds
checkReviewGate_AlwaysPasses(rv) == Gate("No Critical Issues", TRUE, TRUE)

checkReviewGate(rv) == Gate("No Critical Issues", rv.critical = 0, TRUE)

checkAssessmentGate(rv) ==
  Gate("Review Assessment", rv.overallAssessment # "request_changes", FALSE)

Failed(g) == ~g.passed

\* variant: a failed lint gate is pushed to the blockers
checkPolicyGates_LintBlocks(config, score, tests, lint, rv) ==
  LET g1 == checkConfidenceGate(config, score)
      g2 == checkTestGate(config, tests)
      g3 == checkTestsRanGate(tests)
      g4 == checkLintGate(lint)
      g5 == checkReviewGate(rv)
      g6 == checkAssessmentGate(rv)
      blockers == SelectSeq(<<g1, g2, g4, g5>>, Failed)
      warnings == SelectSeq(<<g3, g6>>, Failed)
  IN [passed |-> Len(blockers) = 0,
      gates |-> <<g1, g2, g3, g4, g5, g6>>,
      blockers |-> [i \in 1..Len(blockers) |-> blockers[i].name],
      warnings |-> [i \in 1..Len(warnings) |-> warnings[i].name]]

\* blockers / warnings hold the names of the gates whose message was pushed
checkPolicyGates(config, score, tests, lint, rv) ==
  LET g1 == checkConfidenceGate(config, score)
      g2 == checkTestGate(config, tests)
      g3 == checkTestsRanGate(tests)
      g4 == checkLintGate(lint)
      g5 == checkReviewGate(rv)
      g6 == checkAssessmentGate(rv)
      blockers == SelectSeq(<<g1, g2, g5>>, Failed)
      warnings == SelectSeq(<<g3, g4, g6>>, Failed)
  IN [passed |-> Len(blockers) = 0,
      gates |-> <<g1, g2, g3, g4, g5, g6>>,
      blockers |-> [i \in 1..Len(blockers) |-> blockers[i].name],
      warnings |-> [i \in 1..Len(warnings) |-> warnings[i].name]]

NoPolicy ==
  [passed |-> FALSE, gates |-> <<>>, blockers |-> <<>>, warnings |-> <<>>]
NoTests == [ran |-> FALSE, passed |-> FALSE, pass_rate |-> 0]
NoLint == [ran |-> FALSE, passed |-> FALSE]
NoReview == [critical |-> 0, overallAssessment |-> "none"]
NoBranch == [prefix |-> "", issue |-> 0, suffix |-> <<>>]
NoPR == [number |-> 0, head |-> NoBranch, base |-> ""]

\* parseTestOutput when no format matches: every count stays 0
NoCounts == [total |-> 0, passed |-> 0]
Counts(passed, total) == [total |-> total, passed |-> passed]

\* tester.ts, runTests: the TestResults built from the exit code of the
\* dependency install, the exit code of the test command and the counts
\* parsed from its output
runTests(installExit, testExit, parsed) ==
  IF installExit # 0 THEN NoTests
  ELSE [ran |-> TRUE, passed |-> testExit = 0,
        pass_rate |-> IF parsed.total > 0
                      THEN (parsed.passed * 100) \div parsed.total ELSE 0]

\* dependency install failed; all tests pass; some tests fail; the command
\* exits 0 and prints nothing parseTestOutput recognises
TestSamples ==
  {runTests(1, 0, NoCounts), runTests(0, 0, Counts(10, 10)),
   runTests(0, 1, Counts(89, 100)), runTests(0, 0, NoCounts)}
LintSamples == {[ran |-> TRUE, passed |-> p] : p \in BOOLEAN}
ReviewSamples ==
  {[critical |-> c, overallAssessment |-> a] :
     c \in 0..MaxCritical, a \in {"approve", "request_changes"}}

\* the fixed review selfReview returns when no TaskResult carries a diff
NoChangesReview == [critical |-> 0, overallAssessment |-> "approve"]

\* ------------------------------------------------- components at rest
NoValidation == [valid |-> FALSE, errors |-> <<>>]
NoOutcome == [kind |-> "none", exitCode |-> 0, command |-> <<>>, n |-> 0]

PlannerIdle ==
  planTasks = <<>> /\ sortedTasks = <<>> /\ validation = NoValidation
RunnerIdle ==
  /\ allowed_commands = <<>> /\ executedCommands = <<>>
  /\ execCalls = <<>> /\ runOutcome = NoOutcome
ExecutorIdle ==
  tasks = <<>> /\ taskResults = <<>> /\ sandboxOps = <<>> /\ taskIdx = 0
ExecIdle == procs = <<>> /\ wsWrites = <<>>
ScorerIdle == scoreIn = <<>> /\ scoreOut = <<>>
ConfigIdle == clone = "" /\ defaultConfig = <<>> /\ crun = <<>>
AskIdle ==
  /\ askImpl = "" /\ retries = 0 /\ responses = <<>> /\ attempts = <<>>
  /\ askOutcome = <<>>
ServerIdle ==
  /\ lastDelivery = <<>> /\ triggers = 0 /\ direct = 0 /\ waiting = 0
  /\ working = 0 /\ jobsDone = 0
ProtIdle == protIn = <<>> /\ protOut = <<>>
DeviceIdle ==
  /\ now = 0 /\ pendingAuths = <<>> /\ accessTokens = <<>>
  /\ authorizedAt = <<>> /\ reportedExpired = {} /\ lastLookup = ""
LateIdle == ProtIdle /\ DeviceIdle
MoreIdle == ScorerIdle /\ ConfigIdle /\ AskIdle /\ ServerIdle /\ LateIdle

\* ------------------------------------------------------------------- Init
Init ==
  /\ PlannerIdle /\ RunnerIdle /\ ExecutorIdle /\ ExecIdle /\ MoreIdle
  /\ pc = "start"
  /\ viaQueue \in BOOLEAN
  /\ inputRunId \in InputRunIds
  /\ issueNumber \in IssueNumbers
  /\ row = NoRow
  /\ wsDir = FALSE
  /\ container = "none"
  /\ sandbox = FALSE
  /\ havocConfig = DEFAULT_HAVOC_CONFIG
  /\ defaultBranch = ""
  /\ branchName = NoBranch
  /\ taskDiffs = FALSE
  /\ stagedDiff = FALSE
  /\ testResults = NoTests
  /\ lintResults = NoLint
  /\ review = NoReview
  /\ confidenceScore = 0
  /\ policyResult = NoPolicy
  /\ pr = NoPR
  /\ prs = <<>>
  /\ issueComments = <<>>
  /\ prComments = <<>>
  /\ calls = <<>>
  /\ thrown = NULL
  /\ ret = NoResult
  /\ result = NoResult
  /\ faulted = FALSE

\* ------------------------------------------------- control-flow fragments
\* an exception raised inside the try block: control moves to the catch block
Throw(msg) == pc' = "catch" /\ thrown' = msg /\ faulted' = TRUE

\* the emitRunEvent calls that follow an await: a throwing listener raises
EmitThen(next) ==
  \/ pc' = next /\ UNCHANGED <<thrown, faulted>>
  \/ Throw(SinkMsg)

\* an awaited collaborator call with no modelled effect of its own
TryCall(op, next) ==
  \/ \E m \in ErrMsgs : Log(op, "", "throw") /\ Throw(m)
  \/ Log(op, "", "ok") /\ EmitThen(next)

\* variant: the status write is issued without await and has not reached the
\* row when the stage's work starts
TryStatus_NotAwaited(status, error, next) ==
  /\ LogStatus(status, error, "pending", "pipeline")
  /\ UNCHANGED row
  /\ EmitThen(next)

\* await updateRunStatus(runId, status, error) followed by its emitRunEvent
TryStatus(status, error, next) ==
  \/ \E m \in ErrMsgs :
       /\ LogStatus(status, error, "throw", "pipeline")
       /\ Throw(m) /\ UNCHANGED row
  \/ /\ LogStatus(status, error, "ok", "pipeline")
     /\ row' = updateRunStatus(row, status, error)
     /\ EmitThen(next)

\* leaving the try/catch with a pending completion: the finally block is next
Complete(c) == pc' = "finally" /\ ret' = c


\* ------------------------------------------------------- runPipeline, top
\* lines 51-60: the 'Run started' event is emitted before the try block, so
\* a throwing listener rejects the promise with neither catch nor finally
Start ==
  /\ pc = "start"
  /\ \/ pc' = "createRun" /\ UNCHANGED <<result, faulted>>
     \/ /\ pc' = "settled"
        /\ result' = [Throws(SinkMsg) EXCEPT !.kind = "rejected"]
        /\ faulted' = TRUE
  /\ UNCHANGED <<units, inputs, row, host, sandbox, cfgv, editv, evalv, pr, github,
                 calls, thrown, ret>>

\* lines 64-73: INSERT INTO runs; the row starts in the default status
CreateRun ==
  /\ pc = "createRun"
  /\ \/ \E m \in ErrMsgs :
          Log("createRun", "", "throw") /\ Throw(m) /\ UNCHANGED row
     \/ /\ Log("createRun", "", "ok")
        /\ row' = [NoRow EXCEPT !.exists = TRUE]
        /\ EmitThen("statusCloning")
  /\ UNCHANGED <<units, inputs, host, sandbox, cfgv, editv, evalv, pr, github,
                 ret, result>>

StatusCloning ==
  /\ pc = "statusCloning"
  /\ TryStatus("cloning", NULL, "createSandbox")
  /\ UNCHANGED <<units, inputs, host, sandbox, cfgv, editv, evalv, pr, github,
                 ret, result>>

\* ------------------------------------------------------- sandbox manager
\* createSandbox: mkdirSync, docker.createContainer, container.start; what
\* exists on the host after a failure at each of the three steps
SandboxOutcomes == {"ok", "mkdir", "create", "start"}

createSandboxDir(dir, outcome) == IF outcome = "mkdir" THEN dir ELSE TRUE

createSandboxContainer(outcome) ==
  CASE outcome = "ok" -> "running"
    [] outcome = "start" -> "created"
    [] OTHER -> "none"

\* lines 79-84: `sandbox` is assigned only when createSandbox resolves
CreateSandbox ==
  /\ pc = "createSandbox"
  /\ \E o \in SandboxOutcomes :
       /\ wsDir' = createSandboxDir(wsDir, o)
       /\ container' = createSandboxContainer(o)
       /\ IF o = "ok"
          THEN /\ Log("createSandbox", "", "ok")
               /\ sandbox' = TRUE
               /\ EmitThen("getAuthToken")
          ELSE /\ Log("createSandbox", o, "throw")
               /\ UNCHANGED sandbox
               /\ \E m \in ErrMsgs : Throw(m)
  /\ UNCHANGED <<units, inputs, row, cfgv, editv, evalv, pr, github, ret, result>>

\* cleanupSandbox: stop and remove the container, then remove the workspace;
\* every failure is caught and logged, so the function never throws
cleanupContainer(c, removeOk) ==
  IF removeOk /\ c \in {"created", "running"} THEN "removed" ELSE c

cleanupWorkspace(dir, rmOk) == IF dir /\ rmOk THEN FALSE ELSE dir

\* ---------------------------------------------------------- cloning stage
\* lines 86-97: installation token, or env.githubToken; none is an error
GetAuthToken ==
  /\ pc = "getAuthToken"
  /\ \/ \E m \in ErrMsgs : Log("getInstallationToken", "", "throw") /\ Throw(m)
     \/ /\ Log("getInstallationToken", "", "ok")
        /\ pc' = "cloneRepo" /\ UNCHANGED <<thrown, faulted>>
     \/ /\ UNCHANGED calls
        /\ Throw("No authentication token available")
  /\ UNCHANGED <<units, inputs, row, host, sandbox, cfgv, editv, evalv, pr, github,
                 ret, result>>

\* lines 99-104: git clone and two git config commands in the container;
\* their exit codes are not inspected
CloneRepo ==
  /\ pc = "cloneRepo"
  /\ TryCall("exec:git clone", "loadConfig")
  /\ UNCHANGED <<units, inputs, row, host, sandbox, cfgv, editv, evalv, pr, github,
                 ret, result>>

\* loadHavocConfig(workspaceDir) looks for the file in the host workspace
\* directory, while the clone lives in its repo/ subdirectory: whatever the
\* repository holds, no candidate path exists and the defaults are returned
loadHavocConfig(yamlInRepo) == DEFAULT_HAVOC_CONFIG

\* line 110: the literal used when `cat .havoc.yaml` exits non-zero
InlineDefaultConfig == [min_confidence |-> 70, min_test_pass_rate |-> 90]

\* lines 106-128: `cat .havoc.yaml` decides between loadHavocConfig and the
\* inline defaults; `cat package.json` only touches test_command
LoadConfig ==
  /\ pc = "loadConfig"
  /\ \/ \E m \in ErrMsgs :
          Log("exec:cat config", "", "throw") /\ Throw(m)
          /\ UNCHANGED havocConfig
     \/ \E yamlInRepo \in BOOLEAN :
          /\ Log("exec:cat config", "", "ok")
          /\ havocConfig' = IF yamlInRepo THEN loadHavocConfig(yamlInRepo)
                            ELSE InlineDefaultConfig
          /\ pc' = "getDefaultBranch" /\ UNCHANGED <<thrown, faulted>>
  /\ UNCHANGED <<units, inputs, row, host, sandbox, defaultBranch, branchName,
                 editv, evalv, pr, github, ret, result>>

DefaultBranches == {"main", "develop"}

GetDefaultBranch ==
  /\ pc = "getDefaultBranch"
  /\ \/ \E m \in ErrMsgs :
          Log("getDefaultBranch", "", "throw") /\ Throw(m)
          /\ UNCHANGED defaultBranch
     \/ \E b \in DefaultBranches :
          /\ Log("getDefaultBranch", "", "ok")
          /\ defaultBranch' = b
          /\ pc' = "createBranch" /\ UNCHANGED <<thrown, faulted>>
  /\ UNCHANGED <<units, inputs, row, host, sandbox, havocConfig, branchName,
                 editv, evalv, pr, github, ret, result>>

\* lines 133-137: git checkout -b <branchName> in the container
CreateBranch ==
  /\ pc = "createBranch"
  /\ branchName' = generateBranchName(issueNumber, runId)
  /\ TryCall("exec:git checkout", "statusAnalyzing")
  /\ UNCHANGED <<units, inputs, row, host, sandbox, havocConfig, defaultBranch,
                 editv, evalv, pr, github, ret, result>>

\* ------------------------------------------------------ analyze and plan
StatusAnalyzing ==
  /\ pc = "statusAnalyzing"
  /\ TryStatus("analyzing", NULL, "analyzeIssue")
  /\ UNCHANGED <<units, inputs, host, sandbox, cfgv, editv, evalv, pr, github,
                 ret, result>>

AnalyzeIssue ==
  /\ pc = "analyzeIssue"
  /\ TryCall("analyzeIssue", "statusPlanning")
  /\ UNCHANGED <<units, inputs, row, host, sandbox, cfgv, editv, evalv, pr, github,
                 ret, result>>

StatusPlanning ==
  /\ pc = "statusPlanning"
  /\ TryStatus("planning", NULL, "createPlan")
  /\ UNCHANGED <<units, inputs, host, sandbox, cfgv, editv, evalv, pr, github,
                 ret, result>>

CreatePlan ==
  /\ pc = "createPlan"
  /\ \/ \E m \in ErrMsgs : Log("createPlan", "", "throw") /\ Throw(m)
     \/ /\ Log("createPlan", "", "ok")
        /\ pc' = "updateRunPlan" /\ UNCHANGED <<thrown, faulted>>
  /\ UNCHANGED <<units, inputs, row, host, sandbox, cfgv, editv, evalv, pr, github,
                 ret, result>>

UpdateRunPlan ==
  /\ pc = "updateRunPlan"
  /\ TryCall("updateRunPlan", "statusEditing")
  /\ UNCHANGED <<units, inputs, row, host, sandbox, cfgv, editv, evalv, pr, github,
                 ret, result>>


\* ------------------------------------------------------------ edit stage
StatusEditing ==
  /\ pc = "statusEditing"
  /\ TryStatus("editing", NULL, "executeTasks")
  /\ UNCHANGED <<units, inputs, host, sandbox, cfgv, editv, evalv, pr, github,
                 ret, result>>

\* lines 160-168: executeTasks converts every task failure into a skipped
\* TaskResult; only its onEvent callback can raise out of it.  A sandboxed
\* command of a task that exceeds its deadline rejects inside executeTask and
\* is such a task failure (part_004, lines 52-60): the call still returns,
\* and the other tasks may have produced diffs
ExecuteTasks ==
  /\ pc = "executeTasks"
  /\ \/ /\ Log("executeTasks", "", "throw") /\ Throw(SinkMsg)
        /\ UNCHANGED taskDiffs
     \/ \E d \in BOOLEAN, timedOut \in BOOLEAN :
          /\ Log("executeTasks", IF timedOut THEN "timeout" ELSE "", "ok")
          /\ taskDiffs' = d
          /\ EmitThen("getGitDiff")
  /\ UNCHANGED <<units, inputs, row, host, sandbox, cfgv, stagedDiff, evalv, pr,
                 github, ret, result>>

GetGitDiff ==
  /\ pc = "getGitDiff"
  /\ \/ \E m \in ErrMsgs : Log("exec:git diff", "", "throw") /\ Throw(m)
     \/ /\ Log("exec:git diff", "", "ok")
        /\ pc' = "stageAll" /\ UNCHANGED <<thrown, faulted>>
  /\ UNCHANGED <<units, inputs, row, host, sandbox, cfgv, editv, evalv, pr, github,
                 ret, result>>

StageAll ==
  /\ pc = "stageAll"
  /\ TryCall("exec:git add", "getStagedDiff")
  /\ UNCHANGED <<units, inputs, row, host, sandbox, cfgv, editv, evalv, pr, github,
                 ret, result>>

\* lines 179-182: the output of `git diff --cached` selects the branch
GetStagedDiff ==
  /\ pc = "getStagedDiff"
  /\ \/ \E m \in ErrMsgs :
          Log("exec:git diff --cached", "", "throw") /\ Throw(m)
          /\ UNCHANGED stagedDiff
     \/ \E d \in BOOLEAN :
          /\ Log("exec:git diff --cached", "", "ok")
          /\ stagedDiff' = d
          /\ pc' = IF d THEN "statusTesting" ELSE "emptyDiffStatus"
          /\ UNCHANGED <<thrown, faulted>>
  /\ UNCHANGED <<units, inputs, row, host, sandbox, cfgv, taskDiffs, evalv, pr,
                 github, ret, result>>

SyncMessage == "Code changes were generated but not properly staged. This may be a sandbox sync issue."
NoChangeMessage == "No code changes were generated. PR not created."

\* lines 187-191 / 200-202: the message persisted for an empty staged diff
EmptyDiffMessage(withDiffs) ==
  IF withDiffs THEN SyncMessage ELSE NoChangeMessage

\* line 218: error: stagedDiff.trim() ? 'Sync issue' : 'No changes generated'
EmptyDiffError(staged, withDiffs) ==
  IF staged THEN "Sync issue" ELSE "No changes generated"

EmptyDiffStatus ==
  /\ pc = "emptyDiffStatus"
  /\ TryStatus("failed", EmptyDiffMessage(taskDiffs), "emptyDiffComment")
  /\ UNCHANGED <<units, inputs, host, sandbox, cfgv, editv, evalv, pr, github,
                 ret, result>>

\* lines 193-219: the comment on the issue, then the early return
EmptyDiffComment ==
  /\ pc = "emptyDiffComment"
  /\ LET kind == IF taskDiffs THEN "sync" ELSE "nochange" IN
     \/ \E m \in ErrMsgs :
          /\ Log("addIssueComment", kind, "throw") /\ Throw(m)
          /\ UNCHANGED <<issueComments, ret>>
     \/ /\ Log("addIssueComment", kind, "ok")
        /\ issueComments' = Append(issueComments, kind)
        /\ Complete(Returns(FALSE, 0, FALSE,
                            EmptyDiffError(stagedDiff, taskDiffs), 0))
        /\ UNCHANGED <<thrown, faulted>>
  /\ UNCHANGED <<units, inputs, row, host, sandbox, cfgv, editv, evalv, pr, prs,
                 prComments, result>>

\* ------------------------------------------------ test and review stages
StatusTesting ==
  /\ pc = "statusTesting"
  /\ TryStatus("testing", NULL, "runTests")
  /\ UNCHANGED <<units, inputs, host, sandbox, cfgv, editv, evalv, pr, github,
                 ret, result>>

RunTests ==
  /\ pc = "runTests"
  /\ \/ \E m \in ErrMsgs :
          Log("runTests", "", "throw") /\ Throw(m) /\ UNCHANGED testResults
     \/ \E t \in TestSamples :
          /\ Log("runTests", "", "ok")
          /\ testResults' = t
          /\ EmitThen("runLint")
  /\ UNCHANGED <<units, inputs, row, host, sandbox, cfgv, editv, lintResults,
                 review, confidenceScore, policyResult, pr, github,
                 ret, result>>

RunLint ==
  /\ pc = "runLint"
  /\ \/ \E m \in ErrMsgs :
          Log("runLint", "", "throw") /\ Throw(m) /\ UNCHANGED lintResults
     \/ \E l \in LintSamples :
          /\ Log("runLint", "", "ok")
          /\ lintResults' = l
          /\ EmitThen("statusReviewing")
  /\ UNCHANGED <<units, inputs, row, host, sandbox, cfgv, editv, testResults,
                 review, confidenceScore, policyResult, pr, github,
                 ret, result>>

StatusReviewing ==
  /\ pc = "statusReviewing"
  /\ TryStatus("reviewing", NULL, "selfReview")
  /\ UNCHANGED <<units, inputs, host, sandbox, cfgv, editv, evalv, pr, github,
                 ret, result>>

\* lines 239-265: self-review, then the synchronous confidence score, policy
\* gates and intent card; the score is drawn from ScoreSamples
SelfReview ==
  /\ pc = "selfReview"
  /\ \/ /\ taskDiffs
        /\ \E m \in ErrMsgs : Log("selfReview", "", "throw") /\ Throw(m)
        /\ UNCHANGED <<review, confidenceScore, policyResult>>
     \/ \E rv \in (IF taskDiffs THEN ReviewSamples ELSE {NoChangesReview}),
           sc \in ScoreSamples :
          /\ Log("selfReview", "", "ok")
          /\ review' = rv
          /\ confidenceScore' = sc
          /\ policyResult' =
               checkPolicyGates(havocConfig, sc, testResults, lintResults, rv)
          /\ EmitThen("updateRunArtifacts")
  /\ UNCHANGED <<units, inputs, row, host, sandbox, cfgv, editv, testResults,
                 lintResults, pr, github, ret, result>>

UpdateRunArtifacts ==
  /\ pc = "updateRunArtifacts"
  /\ \/ \E m \in ErrMsgs : Log("updateRunArtifacts", "", "throw") /\ Throw(m)
     \/ /\ Log("updateRunArtifacts", "", "ok")
        /\ pc' = "statusPublishing" /\ UNCHANGED <<thrown, faulted>>
  /\ UNCHANGED <<units, inputs, row, host, sandbox, cfgv, editv, evalv, pr, github,
                 ret, result>>


\* --------------------------------------------------------- publish stage
\* variant: the publish stage does not branch on the policy result
StatusPublishing_IgnorePolicy ==
  /\ pc = "statusPublishing"
  /\ TryStatus("publishing", NULL, "commit")
  /\ UNCHANGED <<units, inputs, host, sandbox, cfgv, editv, evalv, pr, github,
                 ret, result>>

\* lines 276-279: the policy result selects the branch of the publish stage
StatusPublishing ==
  /\ pc = "statusPublishing"
  /\ TryStatus("publishing", NULL,
               IF policyResult.passed THEN "commit" ELSE "policyFailComment")
  /\ UNCHANGED <<units, inputs, host, sandbox, cfgv, editv, evalv, pr, github,
                 ret, result>>

\* lines 281-282: runner.commit emits a 'command' event and runs git commit;
\* the ExecResult it returns is discarded
Commit ==
  /\ pc = "commit"
  /\ \/ Log("commit", "", "throw") /\ Throw(SinkMsg)
     \/ \E m \in ErrMsgs : Log("commit", "", "throw") /\ Throw(m)
     \/ /\ Log("commit", "", "ok")
        /\ pc' = "push" /\ UNCHANGED <<thrown, faulted>>
     \/ /\ Log("commit", "", "nonzero")
        /\ pc' = "push" /\ thrown' = thrown /\ faulted' = TRUE
  /\ UNCHANGED <<units, inputs, row, host, sandbox, cfgv, editv, evalv, pr, github,
                 ret, result>>

PushFailed == "Failed to push"

\* variant: the exit code of git push is not inspected
Push_IgnoreExitCode ==
  /\ pc = "push"
  /\ \/ \E m \in ErrMsgs : Log("push", "", "throw") /\ Throw(m)
     \/ /\ Log("push", "", "nonzero")
        /\ pc' = "createPullRequest" /\ thrown' = thrown /\ faulted' = TRUE
     \/ Log("push", "", "ok") /\ EmitThen("createPullRequest")
  /\ UNCHANGED <<units, inputs, row, host, sandbox, cfgv, editv, evalv, pr, github,
                 ret, result>>

\* lines 285-290: a non-zero exit code of git push is turned into an Error
Push ==
  /\ pc = "push"
  /\ \/ \E m \in ErrMsgs : Log("push", "", "throw") /\ Throw(m)
     \/ Log("push", "", "nonzero") /\ Throw(PushFailed)
     \/ Log("push", "", "ok") /\ EmitThen("createPullRequest")
  /\ UNCHANGED <<units, inputs, row, host, sandbox, cfgv, editv, evalv, pr, github,
                 ret, result>>

\* octokit.rest.pulls.create({head, base}) and the PullRequest it returns
createPullRequest(opened, head, base) ==
  [number |-> Len(opened) + 1, head |-> head, base |-> base]

\* lines 293-300
CreatePullRequest ==
  /\ pc = "createPullRequest"
  /\ \/ \E m \in ErrMsgs :
          /\ Log("createPullRequest", "", "throw") /\ Throw(m)
          /\ UNCHANGED <<pr, prs>>
     \/ /\ Log("createPullRequest", "", "ok")
        /\ pr' = createPullRequest(prs, branchName, defaultBranch)
        /\ prs' = Append(prs, pr')
        /\ EmitThen("reviewComment")
  /\ UNCHANGED <<units, inputs, row, host, sandbox, cfgv, editv, evalv,
                 issueComments, prComments, ret, result>>

\* line 303: the self-review as a PR comment
ReviewComment ==
  /\ pc = "reviewComment"
  /\ \/ \E m \in ErrMsgs :
          /\ Log("addPRComment", "review", "throw") /\ Throw(m)
          /\ UNCHANGED prComments
     \/ /\ Log("addPRComment", "review", "ok")
        /\ prComments' = Append(prComments, "review")
        /\ pc' = "policyComment" /\ UNCHANGED <<thrown, faulted>>
  /\ UNCHANGED <<units, inputs, row, host, sandbox, cfgv, editv, evalv, pr, prs,
                 issueComments, ret, result>>

\* line 306: the policy result as a PR comment
PolicyComment ==
  /\ pc = "policyComment"
  /\ \/ \E m \in ErrMsgs :
          /\ Log("addPRComment", "policy", "throw") /\ Throw(m)
          /\ UNCHANGED prComments
     \/ /\ Log("addPRComment", "policy", "ok")
        /\ prComments' = Append(prComments, "policy")
        /\ pc' = "updateRunPR" /\ UNCHANGED <<thrown, faulted>>
  /\ UNCHANGED <<units, inputs, row, host, sandbox, cfgv, editv, evalv, pr, prs,
                 issueComments, ret, result>>

\* line 309
UpdateRunPR ==
  /\ pc = "updateRunPR"
  /\ \/ \E m \in ErrMsgs :
          Log("updateRunPR", "", "throw") /\ Throw(m) /\ UNCHANGED row
     \/ /\ Log("updateRunPR", "", "ok")
        /\ row' = IF row.exists THEN [row EXCEPT !.prNumber = pr.number]
                  ELSE row
        /\ pc' = "statusDone" /\ UNCHANGED <<thrown, faulted>>
  /\ UNCHANGED <<units, inputs, host, sandbox, cfgv, editv, evalv, pr, github,
                 ret, result>>

\* lines 310-320: the last status write, its event, and the success result
StatusDone ==
  /\ pc = "statusDone"
  /\ \/ \E m \in ErrMsgs :
          /\ LogStatus("done", NULL, "throw", "pipeline") /\ Throw(m)
          /\ UNCHANGED <<row, ret>>
     \/ /\ LogStatus("done", NULL, "ok", "pipeline")
        /\ row' = updateRunStatus(row, "done", NULL)
        /\ \/ Throw(SinkMsg) /\ UNCHANGED ret
           \/ /\ Complete(Returns(TRUE, confidenceScore, TRUE, NULL,
                                  pr.number))
              /\ UNCHANGED <<thrown, faulted>>
  /\ UNCHANGED <<units, inputs, host, sandbox, cfgv, editv, evalv, pr, github,
                 result>>

\* line 341: the policy report and intent card as an issue comment
PolicyFailComment ==
  /\ pc = "policyFailComment"
  /\ \/ \E m \in ErrMsgs :
          /\ Log("addIssueComment", "policy", "throw") /\ Throw(m)
          /\ UNCHANGED issueComments
     \/ /\ Log("addIssueComment", "policy", "ok")
        /\ issueComments' = Append(issueComments, "policy")
        /\ pc' = "policyFailStatus" /\ UNCHANGED <<thrown, faulted>>
  /\ UNCHANGED <<units, inputs, row, host, sandbox, cfgv, editv, evalv, pr, prs,
                 prComments, ret, result>>

PolicyNotPassed == "Policy gates not passed"

\* getPolicySummary of a failed result: the prefix followed by the blockers
getPolicySummary(res) ==
  IF res.passed THEN "All policy gates passed" ELSE "Policy gates failed"

\* lines 343-352
PolicyFailStatus ==
  /\ pc = "policyFailStatus"
  /\ \/ \E m \in ErrMsgs :
          /\ LogStatus("failed", PolicyNotPassed, "throw", "pipeline")
          /\ Throw(m)
          /\ UNCHANGED <<row, ret>>
     \/ /\ LogStatus("failed", PolicyNotPassed, "ok", "pipeline")
        /\ row' = updateRunStatus(row, "failed", PolicyNotPassed)
        /\ \/ Throw(SinkMsg) /\ UNCHANGED ret
           \/ /\ Complete(Returns(FALSE, confidenceScore, FALSE,
                                  getPolicySummary(policyResult), 0))
              /\ UNCHANGED <<thrown, faulted>>
  /\ UNCHANGED <<units, inputs, host, sandbox, cfgv, editv, evalv, pr, github,
                 result>>


\* ------------------------------------------------- catch and finally blocks
\* lines 355-360: the failure handler's own status write and error event are
\* not guarded; an exception raised here leaves the catch block
Catch ==
  /\ pc = "catch"
  /\ \/ \E m \in ErrMsgs :
          /\ LogStatus("failed", thrown, "throw", "pipeline")
          /\ Complete(Throws(m))
          /\ UNCHANGED row
     \/ /\ LogStatus("failed", thrown, "ok", "pipeline")
        /\ row' = updateRunStatus(row, "failed", thrown)
        /\ \/ Complete(Throws(SinkMsg))
           \/ pc' = "catchComment" /\ UNCHANGED ret
  /\ faulted' = TRUE
  /\ UNCHANGED <<units, inputs, host, sandbox, cfgv, editv, evalv, pr, github,
                 thrown, result>>

\* lines 362-379: the error comment is wrapped in its own try/catch
CatchComment ==
  /\ pc = "catchComment"
  /\ \/ /\ Log("addIssueComment", "error", "throw")
        /\ UNCHANGED issueComments
     \/ /\ Log("addIssueComment", "error", "ok")
        /\ issueComments' = Append(issueComments, "error")
  /\ Complete(Returns(FALSE, 0, FALSE, thrown, 0))
  /\ UNCHANGED <<units, inputs, row, host, sandbox, cfgv, editv, evalv, pr, prs,
                 prComments, thrown, result, faulted>>

\* finally { if (sandbox) await sandbox.cleanup() }
cleanupRequested(sb) == sb

Settled(c) ==
  [c EXCEPT !.kind = IF c.kind = "return" THEN "resolved" ELSE "rejected"]

\* lines 381-387, then the promise settles with the pending completion
Finally ==
  /\ pc = "finally"
  /\ IF cleanupRequested(sandbox)
     THEN \E removeOk \in BOOLEAN, rmOk \in BOOLEAN :
            /\ container' = cleanupContainer(container, removeOk)
            /\ wsDir' = cleanupWorkspace(wsDir, rmOk)
            /\ faulted' = (faulted \/ ~removeOk \/ ~rmOk)
            /\ Log("cleanup", "", "ok")
     ELSE UNCHANGED <<host, faulted, calls>>
  /\ result' = Settled(ret)
  /\ pc' = "settled"
  /\ UNCHANGED <<units, inputs, row, sandbox, cfgv, editv, evalv, pr, github,
                 thrown, ret>>

\* ------------------------------------------------------- callers of a run
\* queue/index.ts, worker.on('failed'): a rejected job writes status failed,
\* provided job.data.runId is set; the write's own failure is only logged
JobFailed ==
  /\ pc = "settled" /\ viaQueue /\ result.kind = "rejected"
  /\ IF inputRunId # NoId
     THEN \/ /\ LogStatus("failed", result.error, "throw", "worker")
             /\ UNCHANGED row
          \/ /\ LogStatus("failed", result.error, "ok", "worker")
             /\ row' = updateRunStatus(row, "failed", result.error)
     ELSE UNCHANGED <<row, calls>>
  /\ pc' = "end"
  /\ UNCHANGED <<units, inputs, host, sandbox, cfgv, editv, evalv, pr, github,
                 thrown, ret, result, faulted>>

\* queue/index.ts, worker.on('completed'): logs the outcome
JobCompleted ==
  /\ pc = "settled" /\ viaQueue /\ result.kind = "resolved"
  /\ pc' = "end"
  /\ UNCHANGED <<units, inputs, row, host, sandbox, cfgv, editv, evalv, pr, github,
                 calls, thrown, ret, result, faulted>>

\* webhooks.ts / the API route: runPipeline(...).catch(log)
CallerDone ==
  /\ pc = "settled" /\ ~viaQueue
  /\ pc' = "end"
  /\ UNCHANGED <<units, inputs, row, host, sandbox, cfgv, editv, evalv, pr, github,
                 calls, thrown, ret, result, faulted>>

\* ---------------------------------------------------------- specification
Next ==
  \/ Start \/ CreateRun \/ StatusCloning \/ CreateSandbox \/ GetAuthToken
  \/ CloneRepo \/ LoadConfig \/ GetDefaultBranch \/ CreateBranch
  \/ StatusAnalyzing \/ AnalyzeIssue \/ StatusPlanning \/ CreatePlan
  \/ UpdateRunPlan \/ StatusEditing \/ ExecuteTasks \/ GetGitDiff
  \/ StageAll \/ GetStagedDiff \/ EmptyDiffStatus \/ EmptyDiffComment
  \/ StatusTesting \/ RunTests \/ RunLint \/ StatusReviewing \/ SelfReview
  \/ UpdateRunArtifacts \/ StatusPublishing \/ Commit \/ Push
  \/ CreatePullRequest \/ ReviewComment \/ PolicyComment \/ UpdateRunPR
  \/ StatusDone \/ PolicyFailComment \/ PolicyFailStatus
  \/ Catch \/ CatchComment \/ Finally
  \/ JobFailed \/ JobCompleted \/ CallerDone

Spec == Init /\ [][Next]_vars

\* every awaited call eventually returns or throws: the run keeps stepping
FairSpec == Spec /\ WF_vars(Next)

RunSettled == result.kind # "none"


\* ================================================================= claims
Invoked(op) == \E i \in 1..Len(calls) : calls[i].op = op
Returned(op, arg) ==
  \E i \in 1..Len(calls) :
    calls[i].op = op /\ calls[i].arg = arg /\ calls[i].res = "ok"

\* C1: on every path out of runPipeline after createSandbox was invoked,
\* including a failure inside createSandbox after the workspace directory or
\* the container was created, the container is removed and the workspace
\* directory is deleted by the time the promise settles.
C1_CleanupOnEveryPath ==
  (RunSettled /\ Invoked("createSandbox"))
    => (container \notin {"created", "running"} /\ ~wsDir)

\* C2: runPipeline never rejects: whatever collaborator fails, the promise
\* resolves to a PipelineResult.
C2_NeverRejects == result.kind # "rejected"

\* C3: the statuses runPipeline writes through updateRunStatus follow the
\* order of runStatuses: no write sets a status that precedes the previously
\* written one, failed is written only from a non-terminal status and done
\* only from publishing.
PreviousWritten(i) ==
  IF i = 1 THEN "pending" ELSE StatusWrites[i - 1].arg

C3_StatusOrder ==
  \A i \in 1..Len(StatusWrites) :
    LET a == PreviousWritten(i)
        b == StatusWrites[i].arg
    IN /\ Rank(b) >= Rank(a)
       /\ (b = "failed" => a \notin Terminal)
       /\ (b = "done" => a = "publishing")

\* C4: once the persisted status is done or failed, no later step (the
\* pipeline's failure handler, a second failure path, the queue worker's
\* 'failed' handler) writes the run's status or error again.
C4_TerminalImmutable ==
  [][(row.exists /\ row.status \in Terminal)
       => (Len(SelectSeq(calls', IsWrite)) = Len(SelectSeq(calls, IsWrite))
           /\ row'.status = row.status /\ row'.error = row.error)]_vars


\* the stage whose work a collaborator call belongs to ("" for the others)
StageOf(c) ==
  CASE c.op \in {"createSandbox", "getInstallationToken", "exec:git clone",
                 "exec:cat config", "getDefaultBranch", "exec:git checkout"}
         -> "cloning"
    [] c.op = "analyzeIssue" -> "analyzing"
    [] c.op \in {"createPlan", "updateRunPlan"} -> "planning"
    [] c.op \in {"executeTasks", "exec:git diff", "exec:git add",
                 "exec:git diff --cached"} -> "editing"
    [] c.op \in {"runTests", "runLint"} -> "testing"
    [] c.op \in {"selfReview", "updateRunArtifacts"} -> "reviewing"
    [] c.op \in {"commit", "push", "createPullRequest", "addPRComment",
                 "updateRunPR"} -> "publishing"
    [] c.op = "addIssueComment" /\ c.arg = "policy" -> "publishing"
    [] OTHER -> ""

C6_FailureHandling ==
  (RunSettled /\ thrown # NULL) =>
    /\ row.exists /\ row.status = "failed" /\ row.error = thrown
    /\ \E i \in 1..Len(calls) :
         calls[i].op = "addIssueComment" /\ calls[i].arg = "error"
    /\ result = [kind |-> "resolved", success |-> FALSE,
                 confidenceScore |-> 0, policyPassed |-> FALSE,
                 error |-> thrown, prNumber |-> 0]


\* checkPolicyGates has been evaluated for this run
PolicyEvaluated == review # NoReview
PolicyFailed == PolicyEvaluated /\ ~policyResult.passed

\* the position of the first call `op`/`arg` that ended as `res` (0: none)
FirstAt(op, arg, res) ==
  LET I == {i \in 1..Len(calls) :
              calls[i].op = op /\ calls[i].arg = arg /\ calls[i].res \in res}
  IN IF I = {} THEN 0 ELSE CHOOSE i \in I : \A j \in I : i <= j

NoPublication ==
  ~Invoked("commit") /\ ~Invoked("push") /\ ~Invoked("createPullRequest")

ReturnedPolicyFailure ==
  result.kind = "resolved" /\ result.error = getPolicySummary(NoPolicy)

C8_DoneOnlyAfterPublication ==
  \A i \in 1..Len(calls) :
    (IsWrite(calls[i]) /\ calls[i].arg = "done") =>
      LET c1 == FirstAt("commit", "", {"ok", "nonzero"})
          c2 == FirstAt("push", "", {"ok"})
          c3 == FirstAt("createPullRequest", "", {"ok"})
          c4 == FirstAt("addPRComment", "review", {"ok"})
          c5 == FirstAt("addPRComment", "policy", {"ok"})
          c6 == FirstAt("updateRunPR", "", {"ok"})
      IN /\ PolicyEvaluated /\ policyResult.passed
         /\ 0 < c1 /\ c1 < c2 /\ c2 < c3 /\ c3 < c4 /\ c4 < c5 /\ c5 < c6
         /\ c6 < i

C8_Witness == row.status = "done" /\ pc = "end" /\ Len(prs) = 1

\* C9: with an empty staged diff the run ends failed, reported as a staging /
\* sync problem in the persisted error, the issue comment and the returned
\* error when some TaskResult carries a diff, and as 'no changes generated'
\* only when none does.
ReturnedEmptyDiff ==
  result.kind = "resolved"
  /\ result.error \in {"Sync issue", "No changes generated"}

C9_SyncDistinguished ==
  ReturnedEmptyDiff =>
    /\ row.status = "failed"
    /\ IF taskDiffs
       THEN /\ row.error = SyncMessage
            /\ issueComments = <<"sync">>
            /\ result.error = "Sync issue"
       ELSE /\ row.error = NoChangeMessage
            /\ issueComments = <<"nochange">>
            /\ result.error = "No changes generated"

\* C10: if no collaborator call fails, a change is staged and the policy
\* gates pass, the run eventually reaches status done, exactly one pull
\* request is opened from havoc/issue-<issueNumber>-<first 8 characters of
\* runId> into the default branch, and the result has success=true and
\* policyPassed=true.
FirstChars(id, n) ==
  [i \in 1..(IF Len(id) < n THEN Len(id) ELSE n) |-> id[i]]

PublishedOutcome ==
  /\ row.status = "done"
  /\ Len(prs) = 1
  /\ prs[1].head = [prefix |-> "havoc/issue-", issue |-> issueNumber,
                    suffix |-> FirstChars(runId, 8)]
  /\ prs[1].base = defaultBranch
  /\ result.kind = "resolved" /\ result.success /\ result.policyPassed

C10_HappyPath ==
  (stagedDiff /\ PolicyEvaluated /\ policyResult.passed)
    ~> (faulted \/ PublishedOutcome)

C10_Witness ==
  /\ pc = "end" /\ ~faulted /\ PublishedOutcome
  /\ Len(runId) > 8 /\ defaultBranch = "develop"


\* ============================================ components on their own
\* the pipeline's variables while a component is exercised by itself
PipelineIdle ==
  /\ viaQueue = FALSE /\ inputRunId = NoId /\ issueNumber = 0
  /\ row = NoRow /\ wsDir = FALSE /\ container = "none" /\ sandbox = FALSE
  /\ defaultBranch = "" /\ branchName = NoBranch
  /\ taskDiffs = FALSE /\ stagedDiff = FALSE
  /\ pr = NoPR /\ prs = <<>> /\ issueComments = <<>> /\ prComments = <<>>
  /\ calls = <<>> /\ thrown = NULL /\ ret = NoResult /\ result = NoResult
  /\ faulted = FALSE

NoEvaluation ==
  /\ havocConfig = DEFAULT_HAVOC_CONFIG /\ testResults = NoTests
  /\ lintResults = NoLint /\ review = NoReview /\ confidenceScore = 0
  /\ policyResult = NoPolicy

pipelinev == <<inputs, row, host, sandbox, cfgv, editv, evalv, pr, github,
               calls, thrown, ret, result, faulted>>

\* ------------------------------------------------- Sandbox.exec (manager)
\* commands one sandbox is asked to execute, and workspace writes recorded
MaxCommands == 2
MaxWrites == 2

\* a command started by exec.start: setTimeout armed, promise pending
StartedProc == [state |-> "running", timer |-> "armed", promise |-> "pending"]
\* container.exec rejected, or exec.start called back with err (lines 110-126)
FailedProc == [state |-> "none", timer |-> "cleared", promise |-> "rejected"]

Pending(p) == p.promise = "pending"

\* resolve / reject on a promise that is already settled has no effect
settle(p, how) == IF Pending(p) THEN how ELSE p.promise
\* clearTimeout on a timer that has fired has no effect
clearTimeout(p) == IF p.timer = "armed" THEN "cleared" ELSE p.timer

\* lines 101-122: callers await each exec before issuing the next one
ExecStart ==
  /\ pc = "exec"
  /\ Len(procs) < MaxCommands
  /\ \A i \in 1..Len(procs) : ~Pending(procs[i])
  /\ \E p \in {StartedProc, FailedProc} : procs' = Append(procs, p)
  /\ UNCHANGED <<pc, pipelinev, morev, plannerv, runnerv, executorv, wsWrites>>

\* lines 118-120: the timer's callback only rejects the promise
TimerFires ==
  \E i \in 1..Len(procs) :
    /\ pc = "exec"
    /\ procs[i].timer = "armed"
    /\ procs' = [procs EXCEPT ![i].timer = "fired",
                              ![i].promise = settle(procs[i], "rejected")]
    /\ UNCHANGED <<pc, pipelinev, morev, plannerv, runnerv, executorv, wsWrites>>

\* the command, while it runs in the container, writes to /workspace
CommandWrites ==
  \E i \in 1..Len(procs) :
    /\ pc = "exec"
    /\ procs[i].state = "running"
    /\ Len(wsWrites) < MaxWrites
    /\ wsWrites' = Append(wsWrites,
                          [cmd |-> i, promise |-> procs[i].promise,
                           issued |-> Len(procs)])
    /\ UNCHANGED <<pc, pipelinev, morev, plannerv, runnerv, executorv, procs>>

\* lines 156-173: the command ended; clearTimeout, then resolve with the
\* inspected exit code (or -1 when exec.inspect fails)
StreamEnd ==
  \E i \in 1..Len(procs) :
    /\ pc = "exec"
    /\ procs[i].state = "running"
    /\ procs' = [procs EXCEPT ![i].state = "exited",
                              ![i].timer = clearTimeout(procs[i]),
                              ![i].promise = settle(procs[i], "resolved")]
    /\ UNCHANGED <<pc, pipelinev, morev, plannerv, runnerv, executorv, wsWrites>>

\* lines 175-178: the attached stream failed; what becomes of the command is
\* up to the container
StreamError ==
  \E i \in 1..Len(procs) :
    /\ pc = "exec"
    /\ procs[i].state = "running"
    /\ \E st \in {"running", "exited"} :
         procs' = [procs EXCEPT ![i].state = st,
                                ![i].timer = clearTimeout(procs[i]),
                                ![i].promise = settle(procs[i], "rejected")]
    /\ UNCHANGED <<pc, pipelinev, morev, plannerv, runnerv, executorv, wsWrites>>

ExecInit ==
  /\ pc = "exec"
  /\ PipelineIdle /\ MoreIdle /\ NoEvaluation
  /\ PlannerIdle /\ RunnerIdle /\ ExecutorIdle /\ ExecIdle

ExecNext ==
  \/ ExecStart
  \/ TimerFires \/ CommandWrites \/ StreamEnd \/ StreamError

ExecSpec == ExecInit /\ [][ExecNext]_vars


\* -------------------------------------------------------- SandboxRunner
\* command lines and allow-list entries are character sequences
Git == <<"g", "i", "t">>
Npm == <<"n", "p", "m">>
GitStatus == <<"g", "i", "t", " ", "s">>
GitXStatus == <<"g", "i", "t", "X", " ", "s">>
RmRoot == <<"r", "m", " ", "/">>
SpaceGit == <<" ", "g", "i", "t">>
Commands == {Git, GitStatus, GitXStatus, RmRoot, SpaceGit}
AllowLists == {<<Git, Npm>>, <<>>}
\* run() calls made on one SandboxRunner
MaxRuns == 2

\* String.prototype.startsWith
startsWith(str, prefix) ==
  Len(prefix) <= Len(str) /\ SubSeq(str, 1, Len(prefix)) = prefix

\* command.split(' ')[0]: the characters before the first space
RECURSIVE FirstToken(_)
FirstToken(command) ==
  IF command = <<>> \/ Head(command) = " " THEN <<>>
  ELSE <<Head(command)>> \o FirstToken(Tail(command))

\* variant: the command line itself is matched against the entry's prefix
isCommandAllowed_Prefix(command, allowed) ==
  \E k \in 1..Len(allowed) : startsWith(command, allowed[k])

\* config.allowed_commands.some(allowed =>
\*   baseCommand === allowed || baseCommand.startsWith(`${allowed} `))
isCommandAllowed(command, allowed) ==
  LET baseCommand == FirstToken(command) IN
  \E k \in 1..Len(allowed) :
    \/ baseCommand = allowed[k]
    \/ startsWith(baseCommand, allowed[k] \o <<" ">>)

LogEntry(command, exitCode) == [command |-> command, exitCode |-> exitCode]
Outcome(kind, exitCode, command) ==
  [kind |-> kind, exitCode |-> exitCode, command |-> command,
   n |-> runOutcome.n + 1]

\* run(), a rejected command: exit code 1, logged, sandbox untouched
RunRejected ==
  /\ pc = "runner" /\ runOutcome.n < MaxRuns
  /\ \E command \in Commands :
       /\ ~isCommandAllowed(command, allowed_commands)
       /\ executedCommands' = Append(executedCommands, LogEntry(command, 1))
       /\ runOutcome' = Outcome("return", 1, command)
  /\ UNCHANGED <<pc, pipelinev, morev, plannerv, executorv, execv,
                 allowed_commands, execCalls>>

\* run(), an allowed command: this.emit, then sandbox.exec; the command is
\* logged after exec resolved
RunAllowed ==
  /\ pc = "runner" /\ runOutcome.n < MaxRuns
  /\ \E command \in Commands :
       /\ isCommandAllowed(command, allowed_commands)
       /\ \/ \* the onEvent callback throws inside this.emit
             /\ runOutcome' = Outcome("throw", 0, command)
             /\ UNCHANGED <<execCalls, executedCommands>>
          \/ \* sandbox.exec rejects (timeout, stream error)
             /\ execCalls' = Append(execCalls, command)
             /\ runOutcome' = Outcome("throw", 0, command)
             /\ UNCHANGED executedCommands
          \/ \E exitCode \in {0, 1} :
               /\ execCalls' = Append(execCalls, command)
               /\ executedCommands' =
                    Append(executedCommands, LogEntry(command, exitCode))
               /\ runOutcome' = Outcome("return", exitCode, command)
  /\ UNCHANGED <<pc, pipelinev, morev, plannerv, executorv, execv,
                 allowed_commands>>

RunnerInit ==
  /\ pc = "runner"
  /\ PipelineIdle /\ MoreIdle /\ NoEvaluation /\ PlannerIdle /\ ExecutorIdle /\ ExecIdle
  /\ allowed_commands \in AllowLists
  /\ executedCommands = <<>> /\ execCalls = <<>> /\ runOutcome = NoOutcome

RunnerNext == RunRejected \/ RunAllowed

RunnerSpec == RunnerInit /\ [][RunnerNext]_vars


\* ----------------------------------------------- configuration defaults
Yarn == <<"y", "a", "r", "n">>
Pnpm == <<"p", "n", "p", "m">>
Node == <<"n", "o", "d", "e">>
Npx == <<"n", "p", "x">>
Pytest == <<"p", "y", "t", "e", "s", "t">>
Python == <<"p", "y", "t", "h", "o", "n">>
Go == <<"g", "o">>
Cargo == <<"c", "a", "r", "g", "o">>
Rm == <<"r", "m">>
DEFAULT_allowed_commands ==
  <<Git, Npm, Yarn, Pnpm, Node, Npx, Pytest, Python, Go, Cargo>>

DEFAULT_protected_files ==
  <<<<".", "e", "n", "v">>, <<".", "e", "n", "v", ".", "*">>,
    <<"*", ".", "k", "e", "y">>, <<"*", ".", "p", "e", "m">>,
    <<"s", "e", "c", "r", "e", "t", "s", ".", "*">>,
    <<".", "g", "i", "t", "/", "*", "*">>>>

\* String.prototype.includes for a single character
includes(str, ch) == \E i \in 1..Len(str) : str[i] = ch

\* new RegExp('^' + pattern.replace(/\*/g, '.*').replace(/\?/g, '.') + '$')
\* .test(path): '*' became '.*', '?' became '.', and a '.' of the pattern is
\* the regular expression's any-character as well
RECURSIVE regexTest(_, _)
regexTest(pattern, path) ==
  IF pattern = <<>> THEN path = <<>>
  ELSE IF Head(pattern) = "*"
    THEN \/ regexTest(Tail(pattern), path)
         \/ path # <<>> /\ regexTest(pattern, Tail(path))
  ELSE IF Head(pattern) \in {"?", "."}
    THEN path # <<>> /\ regexTest(Tail(pattern), Tail(path))
  ELSE /\ path # <<>> /\ Head(path) = Head(pattern)
       /\ regexTest(Tail(pattern), Tail(path))

isFileProtected(filePath, protected_files) ==
  \E k \in 1..Len(protected_files) :
    LET pattern == protected_files[k] IN
    IF includes(pattern, "*") THEN regexTest(pattern, filePath)
    ELSE filePath = pattern \/ startsWith(filePath, pattern)

\* ---------------------------------------------------------- executeTasks
\* file paths of the sampled tasks
EnvFile == <<".", "e", "n", "v">>
KeyFile == <<"a", ".", "k", "e", "y">>
NestedFile == <<"s", "/", "a">>
PlainFile == <<"a">>
TaskFiles == {EnvFile, KeyFile, NestedFile, PlainFile}
TaskTypes == {"create", "modify", "delete", "test"}
\* tasks handed to one executeTasks call
MaxTasks == 2

\* the plan numbers its tasks from 1 in list order
TaskShapes == [type : TaskTypes, file : TaskFiles]
TaskAt(i, shape) == [id |-> i, type |-> shape.type, file |-> shape.file]
TaskLists ==
  UNION {{[i \in 1..n |-> TaskAt(i, f[i])] : f \in [1..n -> TaskShapes]} :
           n \in 0..MaxTasks}

\* the repository's allowed_commands are appended to the defaults
ExecutorAllowLists ==
  {DEFAULT_allowed_commands, Append(DEFAULT_allowed_commands, Rm)}

TimeoutMsg == "Command timed out"
\* exceptions of runner calls and of code generation; stderr of a command
RunnerErrs == {TimeoutMsg}
CodegenErrs == ErrMsgs
Stderrs == {"", "sh: error"}

NoTaskResult ==
  [taskId |-> 0, success |-> FALSE, file |-> <<>>, action |-> "none",
   error |-> NULL, diff |-> "none"]
SkippedResult(task, error) ==
  [taskId |-> task.id, success |-> FALSE, file |-> task.file,
   action |-> "skipped", error |-> error, diff |-> "none"]
DoneResult(task, action, diff) ==
  [taskId |-> task.id, success |-> TRUE, file |-> task.file,
   action |-> action, error |-> NULL, diff |-> diff]

\* how a call of executeTask ends, with the runner / code-generation calls
\* it made
Ret(ops, r) == [ops |-> ops, kind |-> "return", result |-> r, msg |-> NULL]
Thr(ops, m) ==
  [ops |-> ops, kind |-> "throw", result |-> NoTaskResult, msg |-> m]

\* dirname(task.file) is neither '' nor '.'
hasDir(file) == includes(file, "/")

\* runner.writeFile and the TaskResult built from its exit code
writeFile(task, ops, action, diff) ==
  LET o == Append(ops, "writeFile") IN
  {Thr(o, m) : m \in RunnerErrs}
    \cup {Ret(o, SkippedResult(task, e)) : e \in Stderrs}
    \cup {Ret(o, DoneResult(task, action, diff))}

createFile(task, ops) ==
  LET o1 == IF hasDir(task.file) THEN Append(ops, "mkdir") ELSE ops
      o2 == Append(o1, "generateCode")
  IN (IF hasDir(task.file) THEN {Thr(o1, m) : m \in RunnerErrs} ELSE {})
       \cup {Thr(o2, m) : m \in CodegenErrs}
       \cup writeFile(task, o2, "created", "new file")

\* the runner call of a readFile that returned null (cat exited non-zero)
ReadNull == "readFile:null"

\* variant: a file that cannot be read fails the task
modifyFile_MissingIsError(task) ==
  LET o1 == <<"readFile">>
      o2 == Append(o1, "ask")
  IN {Thr(o1, m) : m \in RunnerErrs}
       \cup {Ret(<<ReadNull>>, SkippedResult(task, "File not found"))}
       \cup {Thr(o2, m) : m \in CodegenErrs}
       \cup writeFile(task, o2, "modified", "modified")

\* readFile returns null for a file it cannot read: the task is a create
modifyFile(task) ==
  LET o1 == <<"readFile">>
      o2 == Append(o1, "ask")
  IN {Thr(o1, m) : m \in RunnerErrs}
       \cup createFile(task, <<ReadNull>>)
       \cup {Thr(o2, m) : m \in CodegenErrs}
       \cup writeFile(task, o2, "modified", "modified")

\* the runner call of a run() that the allow-list rejected: nothing is
\* handed to the sandbox
RunNotAllowed == "run:not allowed"

RmCommand(file) == <<"r", "m", " ", "-", "f", " ">> \o file

\* runner.run(`rm -f ${task.file}`) goes through the allow-list
deleteFile(task, allowed) ==
  LET o == <<"run">> IN
  IF ~isCommandAllowed(RmCommand(task.file), allowed)
  THEN {Ret(<<RunNotAllowed>>, SkippedResult(task, "Command not allowed"))}
  ELSE {Thr(o, m) : m \in RunnerErrs}
         \cup {Ret(o, SkippedResult(task, e)) : e \in Stderrs}
         \cup {Ret(o, DoneResult(task, "deleted", "deleted"))}

createTestFile(task) ==
  LET o1 == <<"generateCode">>
      o2 == IF hasDir(task.file) THEN Append(o1, "mkdir") ELSE o1
  IN {Thr(o1, m) : m \in CodegenErrs}
       \cup (IF hasDir(task.file) THEN {Thr(o2, m) : m \in RunnerErrs} ELSE {})
       \cup writeFile(task, o2, "created", "new test file")

\* variant: delete tasks skip the protected-file check
executeTask_DeleteUnchecked(task, allowed, protected) ==
  IF task.type # "delete" /\ isFileProtected(task.file, protected)
  THEN {Ret(<<>>, SkippedResult(task, "File is protected"))}
  ELSE CASE task.type = "create" -> createFile(task, <<>>)
         [] task.type = "modify" -> modifyFile(task)
         [] task.type = "delete" -> deleteFile(task, allowed)
         [] task.type = "test" -> createTestFile(task)
         [] OTHER -> {Ret(<<>>, SkippedResult(task, "Unknown task type"))}

executeTask(task, allowed, protected) ==
  IF isFileProtected(task.file, protected)
  THEN {Ret(<<>>, SkippedResult(task, "File is protected"))}
  ELSE CASE task.type = "create" -> createFile(task, <<>>)
         [] task.type = "modify" -> modifyFile(task)
         [] task.type = "delete" -> deleteFile(task, allowed)
         [] task.type = "test" -> createTestFile(task)
         [] OTHER -> {Ret(<<>>, SkippedResult(task, "Unknown task type"))}

OpsOf(idx, ops) == [k \in 1..Len(ops) |-> [task |-> idx, op |-> ops[k]]]

\* one iteration of the loop of executeTasks (lines 32-67): the 'task'
\* event, executeTask, results.push, and the 'error' events.  onEvent is the
\* caller's callback and may throw wherever it is called
ExecuteTask ==
  /\ pc = "executor" /\ taskIdx <= Len(tasks)
  /\ LET task == tasks[taskIdx]
         next == taskIdx + 1
     IN
     \/ \* line 34, outside the try: executeTasks rejects
        /\ pc' = "executorThrown"
        /\ UNCHANGED <<taskResults, sandboxOps, taskIdx>>
     \/ \E o \in executeTask(task, allowed_commands,
                              DEFAULT_protected_files) :
          /\ sandboxOps' = sandboxOps \o OpsOf(taskIdx, o.ops)
          /\ \/ \* lines 41-51, the event of line 46 delivered if any
                /\ o.kind = "return"
                /\ taskResults' = Append(taskResults, o.result)
                /\ taskIdx' = next /\ pc' = pc
             \/ \* line 46 throws inside the try, after results.push: the
                \* catch block pushes a second result, then emits (line 61)
                /\ o.kind = "return" /\ ~o.result.success
                /\ taskResults' = taskResults \o
                     <<o.result, SkippedResult(task, SinkMsg)>>
                /\ \/ taskIdx' = next /\ pc' = pc
                   \/ taskIdx' = taskIdx /\ pc' = "executorThrown"
             \/ \* lines 52-66: executeTask threw
                /\ o.kind = "throw"
                /\ taskResults' = Append(taskResults,
                                         SkippedResult(task, o.msg))
                /\ \/ taskIdx' = next /\ pc' = pc
                   \/ taskIdx' = taskIdx /\ pc' = "executorThrown"
  /\ UNCHANGED <<pipelinev, morev, plannerv, runnerv, execv, tasks>>

\* line 69
ExecuteTasksReturn ==
  /\ pc = "executor" /\ taskIdx > Len(tasks)
  /\ pc' = "executorReturned"
  /\ UNCHANGED <<pipelinev, morev, plannerv, runnerv, executorv, execv>>

ExecutorInit ==
  /\ pc = "executor"
  /\ PipelineIdle /\ MoreIdle /\ NoEvaluation /\ PlannerIdle /\ ExecIdle
  /\ allowed_commands \in ExecutorAllowLists
  /\ executedCommands = <<>> /\ execCalls = <<>> /\ runOutcome = NoOutcome
  /\ tasks \in TaskLists
  /\ taskResults = <<>> /\ sandboxOps = <<>> /\ taskIdx = 1

ExecutorNext == ExecuteTask \/ ExecuteTasksReturn

ExecutorSpec == ExecutorInit /\ [][ExecutorNext]_vars


\* --------------------------------------------------------------- planner
\* plans of up to PlanSize tasks with ids 1..PlanSize, every task listing up
\* to MaxDeps dependencies; PlanSize + 1 is an id no task carries
PlanSize == 3
MaxDeps == 1

DepLists == UNION {[1..n -> 1..(PlanSize + 1)] : n \in 0..MaxDeps}
PlanTasks == [id : 1..PlanSize, dependencies : DepLists]
PlanTask(id, deps) == [id |-> id, dependencies |-> deps]
\* a diamond listed leaves-last, and a plan with several violations at once
DiamondPlan ==
  <<PlanTask(4, <<2, 3>>), PlanTask(3, <<1>>), PlanTask(2, <<1>>),
    PlanTask(1, <<>>)>>
BrokenPlan == <<PlanTask(1, <<5, 1>>), PlanTask(2, <<1, 3, 9>>)>>
Plans ==
  UNION {[1..n -> PlanTasks] : n \in 0..PlanSize}
    \cup {DiamondPlan, BrokenPlan}

NoTask == [id |-> 0, dependencies |-> <<>>]

\* new Map(tasks.map(t => [t.id, t])).get(taskId): the last task carrying
\* an id is the one the map holds
taskMapGet(ts, taskId) ==
  LET at == {i \in 1..Len(ts) : ts[i].id = taskId} IN
  IF at = {} THEN NoTask
  ELSE ts[CHOOSE i \in at : \A j \in at : j <= i]

\* variant of visit: the task is pushed before its dependencies are visited
RECURSIVE visit_PushFirst(_, _, _)
visit_PushFirst(ts, ids, st) ==
  IF ids = <<>> THEN st
  ELSE LET taskId == Head(ids)
           task == taskMapGet(ts, taskId)
           seen == [st EXCEPT !.visited = @ \cup {taskId}]
           after ==
             IF taskId \in st.visited THEN st
             ELSE IF task = NoTask THEN seen
             ELSE visit_PushFirst(ts, task.dependencies,
                    [seen EXCEPT !.sorted = Append(@, task)])
       IN visit_PushFirst(ts, Tail(ids), after)

\* `for (const id of ids) visit(id)` over the closure state {sorted, visited}
RECURSIVE visit(_, _, _)
visit(ts, ids, st) ==
  IF ids = <<>> THEN st
  ELSE LET taskId == Head(ids)
           task == taskMapGet(ts, taskId)
           seen == [st EXCEPT !.visited = @ \cup {taskId}]
           after ==
             IF taskId \in st.visited THEN st
             ELSE IF task = NoTask THEN seen
             ELSE [visit(ts, task.dependencies, seen)
                     EXCEPT !.sorted = Append(@, task)]
       IN visit(ts, Tail(ids), after)

\* variant: every task of the list is visited with a visited-set of its own
RECURSIVE sortedFrom_Fresh(_, _)
sortedFrom_Fresh(ts, ids) ==
  IF ids = <<>> THEN <<>>
  ELSE visit(ts, <<Head(ids)>>, [sorted |-> <<>>, visited |-> {}]).sorted
         \o sortedFrom_Fresh(ts, Tail(ids))

sortTasks_FreshVisited(ts) ==
  sortedFrom_Fresh(ts, [i \in 1..Len(ts) |-> ts[i].id])

sortTasks(ts) ==
  visit(ts, [i \in 1..Len(ts) |-> ts[i].id],
        [sorted |-> <<>>, visited |-> {}]).sorted

PlanError(task, dep, kind) == [task |-> task.id, dep |-> dep, kind |-> kind]

\* variant: the forward check is skipped for a dependency that is missing
depErrors_ElseIf(taskIds, task, dep) ==
  IF dep \notin taskIds THEN <<PlanError(task, dep, "non-existent")>>
  ELSE IF dep >= task.id THEN <<PlanError(task, dep, "forward")>>
  ELSE <<>>

\* lines 317-322: the two checks made for one dependency
depErrors(taskIds, task, dep) ==
  (IF dep \notin taskIds
     THEN <<PlanError(task, dep, "non-existent")>> ELSE <<>>)
    \o (IF dep >= task.id
          THEN <<PlanError(task, dep, "forward")>> ELSE <<>>)

RECURSIVE taskErrors(_, _, _)
taskErrors(taskIds, task, deps) ==
  IF deps = <<>> THEN <<>>
  ELSE depErrors(taskIds, task, Head(deps))
         \o taskErrors(taskIds, task, Tail(deps))

RECURSIVE planErrors(_, _)
planErrors(taskIds, ts) ==
  IF ts = <<>> THEN <<>>
  ELSE taskErrors(taskIds, Head(ts), Head(ts).dependencies)
         \o planErrors(taskIds, Tail(ts))

validatePlan(ts) ==
  LET taskIds == {ts[i].id : i \in 1..Len(ts)}
      errors == planErrors(taskIds, ts)
  IN [valid |-> Len(errors) = 0, errors |-> errors]

SortTasks ==
  /\ pc = "planner"
  /\ sortedTasks' = sortTasks(planTasks)
  /\ pc' = "sorted"
  /\ UNCHANGED <<pipelinev, morev, planTasks, validation, runnerv, executorv, execv>>

ValidatePlan ==
  /\ pc = "planner"
  /\ validation' = validatePlan(planTasks)
  /\ pc' = "validated"
  /\ UNCHANGED <<pipelinev, morev, planTasks, sortedTasks, runnerv, executorv,
                 execv>>

PlannerInit ==
  /\ pc = "planner"
  /\ PipelineIdle /\ MoreIdle /\ NoEvaluation /\ RunnerIdle /\ ExecutorIdle /\ ExecIdle
  /\ planTasks \in Plans
  /\ sortedTasks = <<>> /\ validation = NoValidation

PlannerNext == SortTasks \/ ValidatePlan

PlannerSpec == PlannerInit /\ [][PlannerNext]_vars


\* ---------------------------------------------------------- policy gates
\* thresholds a repository's .havoc.yaml may set, and the evaluation inputs
Thresholds == {0, 70, 100}
PolicyConfigs ==
  [min_confidence : Thresholds, min_test_pass_rate : {0, 90, 100}]
PolicyScores == {0, 69, 70, 100}
PolicyTests == [ran : BOOLEAN, passed : BOOLEAN, pass_rate : {0, 89, 90, 100}]
PolicyReviews ==
  [critical : 0..MaxCritical,
   overallAssessment : {"approve", "needs_discussion", "request_changes"}]

CheckPolicy ==
  /\ pc = "policy"
  /\ policyResult' = checkPolicyGates(havocConfig, confidenceScore,
                                      testResults, lintResults, review)
  /\ pc' = "policyChecked"
  /\ UNCHANGED <<units, inputs, row, host, sandbox, cfgv, editv, testResults,
                 lintResults, review, confidenceScore, pr, github, calls,
                 thrown, ret, result, faulted>>

PolicyInit ==
  /\ pc = "policy"
  /\ PipelineIdle /\ MoreIdle /\ PlannerIdle /\ RunnerIdle /\ ExecutorIdle /\ ExecIdle
  /\ havocConfig \in PolicyConfigs
  /\ confidenceScore \in PolicyScores
  /\ testResults \in PolicyTests
  /\ lintResults \in LintSamples
  /\ review \in PolicyReviews
  /\ policyResult = NoPolicy

PolicyNext == CheckPolicy

PolicySpec == PolicyInit /\ [][PolicyNext]_vars


\* =================================================== claims C11 to C20
\* a sandboxed command issued while executing a task exceeded its deadline
TaskCommandTimedOut == Returned("executeTasks", "timeout")

\* C11: when a sandboxed command of a run exceeds its deadline, in any stage
\* and including the commands issued while executing a task in the edit
\* stage, the run ends with status failed and no pull request is opened.
\* Stated for the runs whose only failure is the timeout inside a task.
C11_TimeoutFatal ==
  (pc = "end" /\ ~faulted /\ TaskCommandTimedOut)
    => (RowStatus = "failed" /\ prs = <<>>)

\* C12: when a command run through Sandbox.exec exceeds the timeout, exec
\* rejects with a timeout error and the command is terminated: once the
\* rejection is delivered the command no longer runs in the container and
\* makes no further write to the workspace, during later commands included.
C12_TimeoutTerminates ==
  /\ \A i \in 1..Len(procs) :
       procs[i].timer = "fired" =>
         procs[i].promise = "rejected" /\ procs[i].state # "running"
  /\ \A w \in 1..Len(wsWrites) :
       procs[wsWrites[w].cmd].timer = "fired" =>
         wsWrites[w].promise # "rejected"

\* the first space-delimited token of the command is exactly an entry
TokenIsEntry(command) ==
  \E k \in 1..Len(allowed_commands) :
    FirstToken(command) = allowed_commands[k]

\* C13: SandboxRunner.run with a command whose first space-delimited token
\* is not exactly an entry of allowed_commands returns a result with a
\* non-zero exit code, does not throw, and never invokes sandbox.exec.
C13_DisallowedRejected ==
  /\ (runOutcome.kind # "none" /\ ~TokenIsEntry(runOutcome.command))
       => (runOutcome.kind = "return" /\ runOutcome.exitCode # 0)
  /\ \A i \in 1..Len(execCalls) : TokenIsEntry(execCalls[i])

\* 'gitX s' was run against ['git', 'npm'] after an allowed command
C13_Witness ==
  /\ allowed_commands = <<Git, Npm>>
  /\ runOutcome.command = GitXStatus /\ runOutcome.kind = "return"
  /\ execCalls = <<GitStatus>>

Protected(task) == isFileProtected(task.file, DEFAULT_protected_files)

C15_OneResultPerTask ==
  /\ pc # "executorThrown"
  /\ pc = "executorReturned" =>
       /\ Len(taskResults) = Len(tasks)
       /\ \A i \in 1..Len(tasks) :
            /\ taskResults[i].taskId = tasks[i].id
            /\ taskResults[i].file = tasks[i].file

\* unique ids, and every dependency names a task of the list with a strictly
\* lower id
UniqueIds(ts) ==
  \A i, j \in 1..Len(ts) : ts[i].id = ts[j].id => i = j
DepExists(ts, dep) == \E j \in 1..Len(ts) : ts[j].id = dep
DepsWellFormed(ts) ==
  \A i \in 1..Len(ts) : \A k \in 1..Len(ts[i].dependencies) :
    LET dep == ts[i].dependencies[k] IN
    DepExists(ts, dep) /\ dep < ts[i].id

\* C16: for a task list with unique ids in which every dependency references
\* an existing task with a strictly lower id, sortTasks returns a permutation
\* of the input in which every task comes after all of its dependencies.
C16_SortTasksOrder ==
  (pc = "sorted" /\ UniqueIds(planTasks) /\ DepsWellFormed(planTasks)) =>
    /\ Len(sortedTasks) = Len(planTasks)
    /\ \A i \in 1..Len(planTasks) :
         \E j \in 1..Len(sortedTasks) : sortedTasks[j] = planTasks[i]
    /\ \A i \in 1..Len(sortedTasks) :
         \A k \in 1..Len(sortedTasks[i].dependencies) :
           \E j \in 1..(i - 1) :
             sortedTasks[j].id = sortedTasks[i].dependencies[k]

\* the diamond was sorted: the output is not the input order
C16_Witness ==
  /\ pc = "sorted" /\ planTasks = DiamondPlan
  /\ Len(sortedTasks) = 4 /\ sortedTasks[1].id = 1 /\ sortedTasks[4].id = 4

\* C17: validatePlan returns valid=true with no errors exactly when every
\* dependency of every task exists in the plan and is strictly less than the
\* task's id; otherwise errors holds an entry for every violation of every
\* task, a missing dependency and a dependency not below the task's id each
\* adding their own entry.
C17_ValidatePlanCollects ==
  pc = "validated" =>
    /\ validation.valid <=> DepsWellFormed(planTasks)
    /\ validation.valid <=> validation.errors = <<>>
    /\ \A i \in 1..Len(planTasks) :
         \A k \in 1..Len(planTasks[i].dependencies) :
           LET task == planTasks[i]
               dep == task.dependencies[k]
               Has(kind) ==
                 \E e \in 1..Len(validation.errors) :
                   validation.errors[e] = PlanError(task, dep, kind)
           IN /\ ~DepExists(planTasks, dep) => Has("non-existent")
              /\ dep >= task.id => Has("forward")

\* the plan with a missing forward dependency, a self dependency and two
\* more missing ones was validated
C17_Witness ==
  /\ pc = "validated" /\ planTasks = BrokenPlan
  /\ ~validation.valid /\ Len(validation.errors) = 7

RequiredGates == {"Minimum Confidence", "Test Pass Rate", "No Critical Issues"}
OptionalGates == {"Tests Executed", "Lint Clean", "Review Assessment"}
FailedRequired(g) == g.required /\ ~g.passed
FailedOptional(g) == ~g.required /\ ~g.passed
NamesOf(gs) == [i \in 1..Len(gs) |-> gs[i].name]
InSeq(x, sq) == \E i \in 1..Len(sq) : sq[i] = x

\* C18: checkPolicyGates returns passed=true exactly when no required gate
\* failed, the required gates being exactly Minimum Confidence, Test Pass
\* Rate and No Critical Issues; blockers lists the failed required gates and
\* warnings the failed optional gates (Tests Executed, Lint Clean, Review
\* Assessment), so optional failures alone leave passed=true.
C18_PassedIffNoBlocker ==
  pc = "policyChecked" =>
    LET gs == policyResult.gates IN
    /\ {gs[i].name : i \in {j \in 1..Len(gs) : gs[j].required}}
         = RequiredGates
    /\ {gs[i].name : i \in {j \in 1..Len(gs) : ~gs[j].required}}
         = OptionalGates
    /\ policyResult.passed <=>
         \A i \in 1..Len(gs) : gs[i].required => gs[i].passed
    /\ policyResult.blockers = NamesOf(SelectSeq(gs, FailedRequired))
    /\ policyResult.warnings = NamesOf(SelectSeq(gs, FailedOptional))

\* all three optional gates failed and nothing else did
C18_Witness ==
  /\ pc = "policyChecked" /\ policyResult.passed
  /\ policyResult.warnings
       = <<"Tests Executed", "Lint Clean", "Review Assessment">>
  /\ policyResult.blockers = <<>>

\* C19: with confidenceScore < config.min_confidence checkPolicyGates returns
\* passed=false and blockers contains the Minimum Confidence gate's message,
\* whatever the test, lint and review inputs; with confidenceScore >=
\* min_confidence that gate contributes no blocker.
C19_ConfidenceBlocks ==
  pc = "policyChecked" =>
    IF confidenceScore < havocConfig.min_confidence
    THEN /\ ~policyResult.passed
         /\ InSeq("Minimum Confidence", policyResult.blockers)
    ELSE ~InSeq("Minimum Confidence", policyResult.blockers)

\* 69 against a threshold of 70 with every other gate passing
C19_Witness ==
  /\ pc = "policyChecked"
  /\ confidenceScore = 69 /\ havocConfig.min_confidence = 70
  /\ ~policyResult.passed
  /\ policyResult.blockers = <<"Minimum Confidence">>
  /\ policyResult.warnings = <<>>

\* C20: the Test Pass Rate gate passes exactly when the tests did not run or
\* pass_rate >= min_test_pass_rate; a run whose dependency install failed is
\* never blocked by this gate and receives the Tests Executed warning.
C20_TestGateSkips ==
  pc = "policyChecked" =>
    LET gate == policyResult.gates[2] IN
    /\ gate.name = "Test Pass Rate"
    /\ gate.passed <=>
         (~testResults.ran
            \/ testResults.pass_rate >= havocConfig.min_test_pass_rate)
    /\ testResults = NoTests =>
         /\ ~InSeq("Test Pass Rate", policyResult.blockers)
         /\ InSeq("Tests Executed", policyResult.warnings)

\* the install failed under a pass-rate threshold of 90: the run passes with
\* the Tests Executed warning alone
C20_Witness ==
  /\ pc = "policyChecked" /\ testResults = NoTests
  /\ havocConfig.min_test_pass_rate = 90
  /\ policyResult.passed
  /\ policyResult.warnings = <<"Tests Executed">>


\* ================================================== confidence scorer
\* A JavaScript number is an exact multiple of 1/Den, or NaN.  A field an
\* unvalidated LLM answer leaves out reads as undefined, which every
\* arithmetic operation and Math.max / Math.min below turn into NaN.
Den == 3
NaN == [nan |-> TRUE, v |-> 0]
F(n) == [nan |-> FALSE, v |-> n * Den]
\* (n / d) * 100
Pct(n, d) == [nan |-> FALSE, v |-> (n * 100 * Den) \div d]

Plus(a, b) == IF a.nan \/ b.nan THEN NaN ELSE [nan |-> FALSE, v |-> a.v + b.v]
Minus(a, b) ==
  IF a.nan \/ b.nan THEN NaN ELSE [nan |-> FALSE, v |-> a.v - b.v]
MathMax(a, b) ==
  IF a.nan \/ b.nan THEN NaN ELSE IF a.v >= b.v THEN a ELSE b
MathMin(a, b) ==
  IF a.nan \/ b.nan THEN NaN ELSE IF a.v <= b.v THEN a ELSE b
\* Math.round: the nearest integer, a half rounding up
MathRound(a) ==
  IF a.nan THEN NaN
  ELSE [nan |-> FALSE, v |-> ((2 * a.v + Den) \div (2 * Den)) * Den]

\* the weights, in hundredths
WEIGHTS ==
  [testsPassing |-> 30, lintClean |-> 10, changeComplexity |-> 20,
   dependencyRisk |-> 15, behaviorRisk |-> 15, selfReview |-> 10]

calculateTestScore(results) ==
  IF ~results.ran THEN F(50)
  ELSE IF ~results.passed THEN MathMax(F(0), Minus(results.pass_rate, F(20)))
  ELSE results.pass_rate

calculateLintScore(results) ==
  IF ~results.ran THEN F(70)
  ELSE IF results.passed THEN F(100)
  ELSE LET errorPenalty == MathMin(F(50), F(results.errors * 10))
           warningPenalty == MathMin(F(20), F(results.warnings * 2))
       IN MathMax(F(0), Minus(Minus(F(100), errorPenalty), warningPenalty))

Succeeded(t) == t.success
ChangedFile(t) == t.success /\ t.action # "skipped"

calculateComplexityScore(taskResults_, plan) ==
  LET successfulTasks == Len(SelectSeq(taskResults_, Succeeded))
      totalTasks == Len(plan.tasks)
      start == IF totalTasks > 0 THEN Pct(successfulTasks, totalTasks)
               ELSE F(50)
      afterTasks == IF totalTasks > 10
                    THEN Minus(start, F((totalTasks - 10) * 2)) ELSE start
      fileChanges == Len(SelectSeq(taskResults_, ChangedFile))
      afterFiles == IF fileChanges > 5
                    THEN Minus(afterTasks, F((fileChanges - 5) * 3))
                    ELSE afterTasks
  IN MathMax(F(0), MathMin(F(100), afterFiles))

\* a plan task is reduced to what its file and details strings include
Mentions(task, k) == k \in task.mentions

RECURSIVE SumFrom(_, _)
SumFrom(costs, i) ==
  IF i > Len(costs) THEN 0 ELSE costs[i] + SumFrom(costs, i + 1)
\* the deductions a loop over seq accumulates
SumOver(seq, i, Cost(_)) ==
  SumFrom([k \in 1..Len(seq) |-> Cost(seq[k])], i)

DependencyCost(task) ==
  (IF Mentions(task, "npm install") \/ Mentions(task, "add dependency")
   THEN 15 ELSE 0)
  + (IF Mentions(task, "external api") \/ Mentions(task, "third-party")
     THEN 10 ELSE 0)
PlanRiskCost(risk) ==
  IF "dependency" \in risk \/ "package" \in risk THEN 10 ELSE 0

calculateDependencyScore(plan) ==
  MathMax(F(0), F(100 - SumOver(plan.tasks, 1, DependencyCost)
                      - SumOver(plan.risks, 1, PlanRiskCost)))

BehaviorCost(task) ==
  (IF Mentions(task, "migration") \/ Mentions(task, "database")
      \/ Mentions(task, "schema") THEN 15 ELSE 0)
  + (IF Mentions(task, "auth") \/ Mentions(task, "security")
        \/ Mentions(task, "password") THEN 10 ELSE 0)
  + (IF Mentions(task, "config") \/ Mentions(task, ".env") THEN 5 ELSE 0)
RiskCost(risk) ==
  CASE risk = "critical" -> 25 [] risk = "high" -> 15
    [] risk = "medium" -> 8 [] risk = "low" -> 3 [] OTHER -> 0

calculateBehaviorScore(plan, rv) ==
  MathMax(F(0), F(100 - SumOver(plan.tasks, 1, BehaviorCost)
                      - SumOver(rv.risks, 1, RiskCost)))

IssueCost(issue) ==
  CASE issue = "critical" -> 30 [] issue = "high" -> 20
    [] issue = "medium" -> 10 [] issue = "low" -> 3 [] OTHER -> 0

calculateSelfReviewScore(rv) ==
  LET adjusted ==
        CASE rv.overallAssessment = "approve" ->
               MathMax(rv.confidence, F(70))
          [] rv.overallAssessment = "request_changes" ->
               MathMin(rv.confidence, F(50))
          [] rv.overallAssessment = "needs_discussion" ->
               MathMin(rv.confidence, F(60))
          [] OTHER -> rv.confidence
      deducted == Minus(adjusted, F(SumOver(rv.issues, 1, IssueCost)))
  IN MathMax(F(0), MathMin(F(100), deducted))

\* Math.round of the sum of the six products sub-score * weight
WeightedRound(b) ==
  IF \E k \in DOMAIN b : b[k].nan THEN NaN
  ELSE LET n == b.testsPassing.v * WEIGHTS.testsPassing
                + b.lintClean.v * WEIGHTS.lintClean
                + b.changeComplexity.v * WEIGHTS.changeComplexity
                + b.dependencyRisk.v * WEIGHTS.dependencyRisk
                + b.behaviorRisk.v * WEIGHTS.behaviorRisk
                + b.selfReview.v * WEIGHTS.selfReview
       IN [nan |-> FALSE,
           v |-> ((2 * n + 100 * Den) \div (200 * Den)) * Den]

calculateConfidenceScore(taskResults_, tests, lint, rv, plan) ==
  LET sub == [testsPassing |-> calculateTestScore(tests),
              lintClean |-> calculateLintScore(lint),
              changeComplexity |->
                calculateComplexityScore(taskResults_, plan),
              dependencyRisk |-> calculateDependencyScore(plan),
              behaviorRisk |-> calculateBehaviorScore(plan, rv),
              selfReview |-> calculateSelfReviewScore(rv)]
  IN [score |-> MathMax(F(0), MathMin(F(100), WeightedRound(sub))),
      breakdown |-> [k \in DOMAIN sub |-> MathRound(sub[k])]]

\* ---- the arguments the scorer is exercised with
ScoreTests ==
  {[ran |-> FALSE, passed |-> FALSE, pass_rate |-> F(0)],
   [ran |-> TRUE, passed |-> TRUE, pass_rate |-> F(100)],
   [ran |-> TRUE, passed |-> TRUE, pass_rate |-> F(0)],
   [ran |-> TRUE, passed |-> FALSE, pass_rate |-> Pct(2, 3)],
   [ran |-> TRUE, passed |-> FALSE, pass_rate |-> F(10)]}
ScoreLints ==
  {[ran |-> FALSE, passed |-> FALSE, errors |-> 0, warnings |-> 0],
   [ran |-> TRUE, passed |-> TRUE, errors |-> 0, warnings |-> 0],
   [ran |-> TRUE, passed |-> FALSE, errors |-> 1, warnings |-> 3],
   [ran |-> TRUE, passed |-> FALSE, errors |-> 6, warnings |-> 11]}

PlainTask == [mentions |-> {}]
RiskyTask ==
  [mentions |-> {"npm install", "external api", "database", "auth", ".env"}]
Modified == [success |-> TRUE, action |-> "modified"]
Skipped == [success |-> FALSE, action |-> "skipped"]
Repeat(x, n) == [i \in 1..n |-> x]

\* taskResults with the plan they come from: nothing planned; three plain
\* tasks done; one of three skipped and a risky task; twelve tasks done;
\* eight risky tasks done
ScoreWork ==
  {[results |-> <<>>, plan |-> [tasks |-> <<>>, risks |-> <<>>]],
   [results |-> Repeat(Modified, 3),
    plan |-> [tasks |-> Repeat(PlainTask, 3), risks |-> <<>>]],
   [results |-> <<Modified, Skipped, Modified>>,
    plan |-> [tasks |-> <<PlainTask, RiskyTask, PlainTask>>,
              risks |-> <<{"package"}, {}>>]],
   [results |-> Repeat(Modified, 12),
    plan |-> [tasks |-> Repeat(PlainTask, 12), risks |-> <<>>]],
   [results |-> Repeat(Modified, 8),
    plan |-> [tasks |-> Repeat(RiskyTask, 8), risks |-> <<{"dependency"}>>]]}

\* review.confidence as the LLM's JSON carries it; NaN stands for an answer
\* without a numeric "confidence" member (askJson casts, it does not check)
ScoreConfidences == {NaN, F(0), F(85), F(90), F(100)}
ScoreReviews ==
  [confidence : ScoreConfidences,
   overallAssessment : {"approve", "request_changes", "needs_discussion"},
   issues : {<<>>, <<"critical">>, <<"high", "medium", "low">>,
             Repeat("critical", 4)},
   risks : {<<>>, <<"critical", "high", "medium", "low">>}]

CalculateConfidenceScore ==
  /\ pc = "scorer"
  /\ scoreOut' = calculateConfidenceScore(scoreIn.work.results, scoreIn.tests,
                                          scoreIn.lint, scoreIn.review,
                                          scoreIn.work.plan)
  /\ pc' = "scored"
  /\ UNCHANGED <<pipelinev, plannerv, runnerv, executorv, execv, latev,
                 scoreIn,
                 configv, askv, serverv>>

ScorerInit ==
  /\ pc = "scorer"
  /\ PipelineIdle /\ NoEvaluation
  /\ PlannerIdle /\ RunnerIdle /\ ExecutorIdle /\ ExecIdle
  /\ scoreIn \in [tests : ScoreTests, lint : ScoreLints, work : ScoreWork,
                  review : ScoreReviews]
  /\ scoreOut = <<>>
  /\ ConfigIdle /\ AskIdle /\ ServerIdle /\ LateIdle

ScorerNext == CalculateConfidenceScore

ScorerSpec == ScorerInit /\ [][ScorerNext]_vars


\* =================================================== claims C21 to C30
\* the spec's worked example: all tests pass, lint passes, three of three
\* tasks done, no risk keyword, review confidence 90 with assessment approve
SpecExample ==
  /\ scoreIn.tests = [ran |-> TRUE, passed |-> TRUE, pass_rate |-> F(100)]
  /\ scoreIn.lint.passed
  /\ scoreIn.work.results = Repeat(Modified, 3)
  /\ scoreIn.review = [confidence |-> F(90), overallAssessment |-> "approve",
                       issues |-> <<>>, risks |-> <<>>]

\* C21: for all inputs calculateConfidenceScore returns an integer score in
\* [0,100], the rounded weighted sum of the six sub-scores clamped to
\* [0,100]; for the sub-scores 100, 100, 100, 100, 100, 90 it returns 99.
C21_ScoreInRange ==
  pc = "scored" =>
    /\ ~scoreOut.score.nan
    /\ scoreOut.score.v \in {n * Den : n \in 0..100}
    /\ SpecExample => scoreOut.score = F(99)


\* ============================== configuration of concurrent runs
\* Two runs with distinct ids in one process.  DEFAULT_HAVOC_CONFIG is one
\* object of the module; a run's havocConfig is a reference to it ("shared")
\* or an object of its own ("own").  A run's steps are the awaits of
\* runPipeline between which the other run may execute.
ConcurrentRuns == {1, 2}

\* what a cloned repository holds: a .havoc.yaml (setting min_confidence to
\* YamlMinConfidence), a package.json with a test script, a pytest.ini
YamlMinConfidence == 80
Repos ==
  {[yaml |-> y, testScript |-> t, pytest |-> ~t] : y, t \in BOOLEAN}

FullDefaultConfig ==
  [test_command |-> "npm test", min_confidence |-> DEFAULT_min_confidence]

\* detectTestCommand(repoDir)
detectTestCommand(repo) ==
  IF repo.testScript THEN "npm test"
  ELSE IF repo.pytest THEN "pytest"
  ELSE "npm test"

NoRunConfig == [test_command |-> "", min_confidence |-> 0]

\* the object a run's havocConfig refers to
Config(r) == IF crun[r].ref = "shared" THEN defaultConfig ELSE crun[r].own

\* src/pipeline.ts, lines 85-90: the clone is in workspaceDir, so
\* loadHavocConfig finds a .havoc.yaml and returns a fresh merged object, or
\* returns DEFAULT_HAVOC_CONFIG itself; the assignment to test_command then
\* writes into whichever object that is
LoadConfigHost ==
  /\ clone = "host"
  /\ \E r \in ConcurrentRuns :
       /\ crun[r].pc = "load"
       /\ LET repo == crun[r].repo
              cmd == detectTestCommand(repo)
          IN IF repo.yaml
             THEN /\ crun' = [crun EXCEPT
                       ![r].pc = "test", ![r].ref = "own",
                       ![r].own = [test_command |-> cmd,
                                   min_confidence |-> YamlMinConfidence],
                       ![r].derived = cmd]
                  /\ UNCHANGED defaultConfig
             ELSE /\ crun' = [crun EXCEPT
                       ![r].pc = "test", ![r].ref = "shared",
                       ![r].derived = cmd]
                  /\ defaultConfig' =
                       [defaultConfig EXCEPT !.test_command = cmd]
  /\ UNCHANGED <<pc, pipelinev, plannerv, runnerv, executorv, execv,
                 latev, scorerv, askv, serverv, clone>>

\* part_008, lines 107-110: `cat /workspace/repo/.havoc.yaml` chooses between
\* loadHavocConfig(workspaceDir), which finds no file beside the repo/
\* directory and returns DEFAULT_HAVOC_CONFIG itself, and a fresh literal
LoadConfigContainer ==
  /\ clone = "container"
  /\ \E r \in ConcurrentRuns :
       /\ crun[r].pc = "load"
       /\ crun' = IF crun[r].repo.yaml
                  THEN [crun EXCEPT ![r].pc = "detect", ![r].ref = "shared"]
                  ELSE [crun EXCEPT
                          ![r].pc = "detect", ![r].ref = "own",
                          ![r].own =
                            [test_command |-> "",
                             min_confidence |->
                               InlineDefaultConfig.min_confidence]]
  /\ UNCHANGED <<pc, pipelinev, plannerv, runnerv, executorv, execv,
                 latev, scorerv, askv, serverv, clone, defaultConfig>>

\* part_008, lines 113-119: if (pkg.scripts?.test) havocConfig.test_command =
\* 'npm test'
DetectInContainer ==
  /\ clone = "container"
  /\ \E r \in ConcurrentRuns :
       /\ crun[r].pc = "detect"
       /\ LET shared == crun[r].ref = "shared"
              script == crun[r].repo.testScript
              cmd == IF script THEN "npm test" ELSE Config(r).test_command
          IN /\ crun' = [crun EXCEPT
                  ![r].pc = "test", ![r].derived = cmd,
                  ![r].own = IF script /\ ~shared
                             THEN [@ EXCEPT !.test_command = "npm test"]
                             ELSE @]
             /\ defaultConfig' =
                  IF script /\ shared
                  THEN [defaultConfig EXCEPT !.test_command = "npm test"]
                  ELSE defaultConfig
  /\ UNCHANGED <<pc, pipelinev, plannerv, runnerv, executorv, execv,
                 latev, scorerv, askv, serverv, clone>>

\* runTests(runner, havocConfig): runner.runTests(config.test_command)
RunTestsWithConfig ==
  /\ \E r \in ConcurrentRuns :
       /\ crun[r].pc = "test"
       /\ crun' = [crun EXCEPT ![r].pc = "gates",
                               ![r].ran = Config(r).test_command]
  /\ UNCHANGED <<pc, pipelinev, plannerv, runnerv, executorv, execv,
                 latev, scorerv, askv, serverv, clone, defaultConfig>>

\* checkPolicyGates(havocConfig, ...): the threshold of the confidence gate
CheckGatesWithConfig ==
  /\ \E r \in ConcurrentRuns :
       /\ crun[r].pc = "gates"
       /\ crun' = [crun EXCEPT ![r].pc = "done",
                               ![r].threshold = Config(r).min_confidence]
  /\ UNCHANGED <<pc, pipelinev, plannerv, runnerv, executorv, execv,
                 latev, scorerv, askv, serverv, clone, defaultConfig>>

ConfigInit ==
  /\ pc = "runs"
  /\ PipelineIdle /\ NoEvaluation
  /\ PlannerIdle /\ RunnerIdle /\ ExecutorIdle /\ ExecIdle /\ ScorerIdle
  /\ AskIdle /\ ServerIdle /\ LateIdle
  /\ clone \in {"host", "container"}
  /\ defaultConfig = FullDefaultConfig
  /\ \E repos \in [ConcurrentRuns -> Repos] :
       crun = [r \in ConcurrentRuns |->
                 [pc |-> "load", repo |-> repos[r], ref |-> "none",
                  own |-> NoRunConfig, derived |-> "", ran |-> "",
                  threshold |-> 0]]

ConfigNext ==
  \/ LoadConfigHost \/ LoadConfigContainer \/ DetectInContainer
  \/ RunTestsWithConfig \/ CheckGatesWithConfig

ConfigSpec == ConfigInit /\ [][ConfigNext]_vars

\* C22: for two runs executing concurrently, the configuration used by one
\* run is never changed by the other: the test command a run executes is the
\* one derived for its own repository when it loaded its configuration.
C22_ConfigIsolated ==
  \A r \in ConcurrentRuns :
    crun # <<>> /\ crun[r].pc \in {"gates", "done"}
      => crun[r].ran = crun[r].derived


\* C23: every write to a run's persisted record is performed by the
\* runPipeline execution that created the run; no other component (the queue
\* worker's event handlers among them) updates it.
C23_OnlyPipelineWrites ==
  \A i \in 1..Len(calls) : IsWrite(calls[i]) => calls[i].by = "pipeline"


\* C24: when the cloned repository contains a .havoc.yaml, the thresholds
\* the run's policy gates use are those of that file merged over the
\* defaults: the Minimum Confidence gate is evaluated against the file's
\* min_confidence.
C24_YamlThresholdUsed ==
  \A r \in ConcurrentRuns :
    crun # <<>> /\ crun[r].pc = "done" /\ crun[r].repo.yaml
      => crun[r].threshold = YamlMinConfidence


\* C25: a failure while delivering a progress event never changes a run's
\* outcome: the listener's exception is never the error the run handles,
\* persists or returns, and runPipeline never rejects because of it.
C25_SinkHarmless ==
  /\ thrown # SinkMsg
  /\ row.error # SinkMsg
  /\ result.kind # "none" => result.error # SinkMsg


\* ================================================================ askJson
\* what the model answers to one ask(): JSON, JSON inside a markdown fence,
\* text without JSON, or no answer at all (ask rejects)
ResponseKinds == {"json", "fenced", "prose", "error"}

\* parseJsonResponse: the fence is stripped and the object extracted;
\* JSON.parse throws on text that holds no JSON
parseJsonResponse(response) == response \in {"json", "fenced"}

DefaultRetries == 2
AttemptsOf(n) == n + 1

Returned_(n) == [kind |-> "return", attempt |-> n]
Thrown_(n) == [kind |-> "throw", attempt |-> n]

\* gemini.ts, lines 161-176: one iteration of the loop: the prompt (with the
\* JSON-only instruction appended when i > 0), ask, parseJsonResponse, and
\* on an exception the one-second wait before the next iteration
AskAttempt ==
  /\ pc = "askJson" /\ askImpl = "retrying"
  /\ Len(attempts) < AttemptsOf(retries)
  /\ LET n == Len(attempts) + 1
         response == responses[n]
     IN /\ attempts' = Append(attempts,
                              [strict |-> n > 1, response |-> response])
        /\ IF response # "error" /\ parseJsonResponse(response)
           THEN pc' = "asked" /\ askOutcome' = Returned_(n)
           ELSE UNCHANGED <<pc, askOutcome>>
  /\ UNCHANGED <<pipelinev, plannerv, runnerv, executorv, execv, latev,
                 scorerv,
                 configv, serverv, askImpl, retries, responses>>

\* gemini.ts, line 179: throw lastError || new Error('JSON parsing failed')
AskGiveUp ==
  /\ pc = "askJson" /\ askImpl = "retrying"
  /\ Len(attempts) = AttemptsOf(retries)
  /\ pc' = "asked" /\ askOutcome' = Thrown_(Len(attempts))
  /\ UNCHANGED <<pipelinev, plannerv, runnerv, executorv, execv, latev,
                 scorerv,
                 configv, serverv, askImpl, retries, responses, attempts>>

\* part_005, lines 323-326: one ask, one parseJsonResponse, no catch
AskOnce ==
  /\ pc = "askJson" /\ askImpl = "single"
  /\ attempts' = <<[strict |-> FALSE, response |-> responses[1]]>>
  /\ askOutcome' = IF responses[1] # "error"
                      /\ parseJsonResponse(responses[1])
                   THEN Returned_(1) ELSE Thrown_(1)
  /\ pc' = "asked"
  /\ UNCHANGED <<pipelinev, plannerv, runnerv, executorv, execv, latev,
                 scorerv,
                 configv, serverv, askImpl, retries, responses>>

\* callers pass no `retries`: the default applies.  The retrying askJson is
\* also exercised with smaller values of the argument.
AskInit ==
  /\ pc = "askJson"
  /\ PipelineIdle /\ NoEvaluation
  /\ PlannerIdle /\ RunnerIdle /\ ExecutorIdle /\ ExecIdle
  /\ ScorerIdle /\ ConfigIdle /\ ServerIdle /\ LateIdle
  /\ askImpl \in {"retrying", "single"}
  /\ retries \in 0..DefaultRetries
  /\ askImpl = "single" => retries = DefaultRetries
  /\ responses \in [1..AttemptsOf(DefaultRetries) -> ResponseKinds]
  /\ attempts = <<>>
  /\ askOutcome = <<>>

AskNext == AskAttempt \/ AskGiveUp \/ AskOnce

AskSpec == AskInit /\ [][AskNext]_vars

Parses(i) == responses[i] # "error" /\ parseJsonResponse(responses[i])

\* C26: askJson makes at most retries+1 attempts, returns the first response
\* that parses, appends the JSON-only instruction to every attempt after the
\* first, and throws only after every attempt has failed, so a single
\* malformed response never fails the call.
C26_AskJsonRetries ==
  pc = "asked" =>
    /\ Len(attempts) <= AttemptsOf(retries)
    /\ \A i \in 1..Len(attempts) : attempts[i].strict = (i > 1)
    /\ askOutcome.kind = "return" =>
         /\ Parses(askOutcome.attempt)
         /\ \A i \in 1..(askOutcome.attempt - 1) : ~Parses(i)
    /\ askOutcome.kind = "throw" =>
         /\ Len(attempts) = AttemptsOf(retries)
         /\ \A i \in 1..AttemptsOf(retries) : ~Parses(i)


\* ================================================ triggers of a run
\* ---- strings as character sequences
SlashHavoc == <<"/", "h", "a", "v", "o", "c">>
SlashHavocRun == SlashHavoc \o <<" ", "r", "u", "n">>
PaddedUpper == <<" ", "/", "H", "a", "v", "o", "c", " ">>
SlashHavocRunner == SlashHavocRun \o <<"n", "e", "r">>
SlashHavocStatus == SlashHavoc \o <<" ", "s", "t", "a", "t", "u", "s">>
Thanks == <<"t", "h", "x">>
Bodies == {SlashHavoc, SlashHavocRun, PaddedUpper, SlashHavocRunner,
           SlashHavocStatus, Thanks}

HavocLabel == <<"h", "a", "v", "o", "c">>
HavocRunLabel == HavocLabel \o <<"-", "r", "u", "n">>
BugLabel == <<"b", "u", "g">>

\* String.prototype.toLowerCase, on the letters the samples use
toLowerCase(str) ==
  [i \in 1..Len(str) |-> IF str[i] = "H" THEN "h" ELSE str[i]]

\* String.prototype.trim
RECURSIVE trim(_)
trim(str) ==
  IF str = <<>> THEN str
  ELSE IF Head(str) = " " THEN trim(Tail(str))
  ELSE IF str[Len(str)] = " " THEN trim(SubSeq(str, 1, Len(str) - 1))
  ELSE str

hasHavocLabel(labels) ==
  \E l \in labels :
    toLowerCase(l) = HavocLabel \/ toLowerCase(l) = HavocRunLabel

isHavocCommand(body) ==
  LET trimmed == toLowerCase(trim(body))
  IN \/ trimmed = SlashHavoc
     \/ trimmed = SlashHavocRun
     \/ startsWith(trimmed, SlashHavocRun)

\* ---- webhook deliveries: the event header, payload.action, the label the
\* event added (payload.label), the labels the issue carries afterwards
\* (payload.issue.labels), the comment's body
NoLabel == <<>>
Delivery(event, action, label, labels, body) ==
  [event |-> event, action |-> action, label |-> label, labels |-> labels,
   body |-> body]
Deliveries ==
  {Delivery("issues", "labeled", l, {l} \cup more, <<>>) :
     l \in {HavocLabel, HavocRunLabel, BugLabel},
     more \in {{}, {HavocLabel}}}
  \cup {Delivery("issues", "opened", NoLabel, {HavocLabel}, <<>>)}
  \cup {Delivery("issue_comment", a, NoLabel, {}, b) :
          a \in {"created", "edited"}, b \in Bodies}
  \cup {Delivery("ping", "", NoLabel, {}, <<>>)}

\* webhooks.ts, lines 84-110 and 115-145: the handlers start at most one run
handleIssueLabeled(d) == IF hasHavocLabel(d.labels) THEN 1 ELSE 0
handleIssueComment(d) ==
  IF d.action # "created" THEN 0
  ELSE IF isHavocCommand(d.body) THEN 1 ELSE 0

\* the route's dispatch, lines 169-192
runsStartedBy(d) ==
  IF d.event = "issues"
  THEN IF d.action = "labeled" THEN handleIssueLabeled(d) ELSE 0
  ELSE IF d.event = "issue_comment" THEN handleIssueComment(d)
  ELSE 0

\* deliveries, API requests and queue jobs accepted in one behaviour
MaxTriggers == 4
MAX_CONCURRENT_RUNS == 3

\* POST /webhooks/github: the handler awaits getRepositoryByFullName before
\* it calls runPipeline without awaiting it; a failing lookup rejects the
\* handler and no run is started
WebhookDelivery ==
  /\ pc = "server" /\ triggers < MaxTriggers
  /\ \E d \in Deliveries, lookupOk \in BOOLEAN :
       LET n == IF lookupOk THEN runsStartedBy(d) ELSE 0
       IN /\ lastDelivery' = [d |-> d, lookupOk |-> lookupOk, started |-> n]
          /\ direct' = direct + n
  /\ triggers' = triggers + 1
  /\ UNCHANGED <<pc, pipelinev, plannerv, runnerv, executorv, execv, latev,
                 scorerv,
                 configv, askv, waiting, working,
                 jobsDone>>

\* POST /api/runs (part_002, lines 51-95): runPipeline(...).catch(log)
ApiRun ==
  /\ pc = "server" /\ triggers < MaxTriggers
  /\ direct' = direct + 1
  /\ triggers' = triggers + 1
  /\ UNCHANGED <<pc, pipelinev, plannerv, runnerv, executorv, execv, latev,
                 scorerv,
                 configv, askv, lastDelivery, waiting, working,
                 jobsDone>>

\* enqueuePipelineJob: pipelineQueue.add
EnqueuePipelineJob ==
  /\ pc = "server" /\ triggers < MaxTriggers
  /\ waiting' = waiting + 1
  /\ triggers' = triggers + 1
  /\ UNCHANGED <<pc, pipelinev, plannerv, runnerv, executorv, execv, latev,
                 scorerv,
                 configv, askv, lastDelivery, direct, working,
                 jobsDone>>

\* the Worker takes a job while fewer than `concurrency` are active
WorkerTakesJob ==
  /\ pc = "server" /\ waiting > 0 /\ working < MAX_CONCURRENT_RUNS
  /\ waiting' = waiting - 1
  /\ working' = working + 1
  /\ UNCHANGED <<pc, pipelinev, plannerv, runnerv, executorv, execv, latev,
                 scorerv,
                 configv, askv, lastDelivery, triggers, direct,
                 jobsDone>>

\* a runPipeline promise settles
DirectRunSettles ==
  /\ pc = "server" /\ direct > 0
  /\ direct' = direct - 1
  /\ UNCHANGED <<pc, pipelinev, plannerv, runnerv, executorv, execv, latev,
                 scorerv,
                 configv, askv, lastDelivery, triggers, waiting, working,
                 jobsDone>>

JobSettles ==
  /\ pc = "server" /\ working > 0
  /\ working' = working - 1
  /\ jobsDone' = jobsDone + 1
  /\ UNCHANGED <<pc, pipelinev, plannerv, runnerv, executorv, execv, latev,
                 scorerv,
                 configv, askv, lastDelivery, triggers, direct, waiting>>

ServerInit ==
  /\ pc = "server"
  /\ PipelineIdle /\ NoEvaluation
  /\ PlannerIdle /\ RunnerIdle /\ ExecutorIdle /\ ExecIdle
  /\ ScorerIdle /\ ConfigIdle /\ AskIdle /\ LateIdle
  /\ lastDelivery = <<>> /\ triggers = 0 /\ direct = 0 /\ waiting = 0
  /\ working = 0 /\ jobsDone = 0

ServerNext ==
  \/ WebhookDelivery \/ ApiRun \/ EnqueuePipelineJob \/ WorkerTakesJob
  \/ DirectRunSettles \/ JobSettles

ServerSpec == ServerInit /\ [][ServerNext]_vars

\* the deliveries that are to start a run: a newly created comment whose
\* trimmed, lower-cased body is the command, or a label event adding the label
IsTrigger(d) ==
  \/ /\ d.event = "issue_comment" /\ d.action = "created"
     /\ toLowerCase(trim(d.body)) \in {SlashHavoc, SlashHavocRun}
  \/ /\ d.event = "issues" /\ d.action = "labeled"
     /\ toLowerCase(d.label) \in {HavocLabel, HavocRunLabel}

\* C27: each webhook delivery starts at most one run, and starts one exactly
\* when it is a newly created '/havoc' or '/havoc run' comment or a label
\* event that adds the label havoc or havoc-run.  Stated for the deliveries
\* whose repository lookup succeeded.
C27_OneRunPerTrigger ==
  (lastDelivery # <<>> /\ lastDelivery.lookupOk) =>
    lastDelivery.started = IF IsTrigger(lastDelivery.d) THEN 1 ELSE 0

\* C28: at any time at most MAX_CONCURRENT_RUNS executions of runPipeline
\* are in progress, whatever started them.
C28_ConcurrencyCap == direct + working <= MAX_CONCURRENT_RUNS


\* the log entries of the commands that passed the allow-list
AllowedEntry(e) == isCommandAllowed(e.command, allowed_commands)
LoggedAllowed ==
  LET es == SelectSeq(executedCommands, AllowedEntry)
  IN [i \in 1..Len(es) |-> es[i].command]

\* C29: after any sequence of SandboxRunner.run calls the command log holds
\* exactly one entry per call, in call order, whether the command was
\* rejected by the allow-list, ran to completion or failed inside the
\* sandbox.  Stated as: a call that returns has logged its command and exit
\* code last, and the commands handed to sandbox.exec are the logged
\* allowed commands, in order.
C29_OneEntryPerCall ==
  /\ runOutcome.kind = "return" =>
       executedCommands[Len(executedCommands)] =
         LogEntry(runOutcome.command, runOutcome.exitCode)
  /\ LoggedAllowed = execCalls


\* the runner and code-generation calls the step made for its task
NewOps == SubSeq(sandboxOps', Len(sandboxOps) + 1, Len(sandboxOps'))
OpNames(ops) == [k \in 1..Len(ops) |-> ops[k].op]
\* what executeTasks pushes first for an outcome of executeTask
PushedFor(task, o) ==
  IF o.kind = "return" THEN o.result ELSE SkippedResult(task, o.msg)
\* the step executed a modify task whose readFile returned null
ModifiedMissing ==
  /\ pc = "executor" /\ taskIdx <= Len(tasks)
  /\ tasks[taskIdx].type = "modify"
  /\ Len(NewOps) > 0 /\ NewOps[1].op = ReadNull

\* C30: executing a modify task whose file cannot be read (readFile returns
\* null) behaves exactly as a create task on that file: after the read, the
\* calls made and the TaskResult recorded are those of a create of the same
\* task; a successful write gives success=true, action='created' and the
\* new-file diff, and no result carries an error for the missing file.
C30_ModifyMissingIsCreate ==
  [][ModifiedMissing =>
       LET task == tasks[taskIdx]
           r == taskResults'[Len(taskResults) + 1]
       IN /\ Len(taskResults') > Len(taskResults)
          /\ \E o \in createFile(task, <<>>) :
               /\ OpNames(NewOps) = <<ReadNull>> \o o.ops
               /\ r = PushedFor(task, o)
          /\ r.success => r.action = "created" /\ r.diff = "new file"
          /\ r.error # "File not found"]_vars

\* a modify task on a file that could not be read ended as a created file,
\* with the calls of a create after the read
C30_Witness ==
  /\ pc = "executorReturned" /\ Len(tasks) = 1
  /\ tasks[1].type = "modify" /\ tasks[1].file = NestedFile
  /\ OpNames(sandboxOps) = <<ReadNull, "mkdir", "generateCode", "writeFile">>
  /\ taskResults = <<DoneResult(tasks[1], "created", "new file")>>


\* ------------------------------------------------ protected-file matcher
\* patterns and paths of up to MaxGlob characters
MaxGlob == 3
PatternChars == {"a", ".", "*", "?"}
PathChars == {"a", "b", "."}
GlobPatterns == UNION {[1..n -> PatternChars] : n \in 1..MaxGlob}
GlobPaths == UNION {[1..n -> PathChars] : n \in 0..MaxGlob}

\* one call isFileProtected(path, {protected_files: [pattern]})
IsFileProtected ==
  /\ pc = "matcher"
  /\ protOut' = isFileProtected(protIn.path, <<protIn.pattern>>)
  /\ pc' = "matched"
  /\ UNCHANGED <<pipelinev, plannerv, runnerv, executorv, execv, scorerv,
                 configv, askv, serverv, devicev, protIn>>

MatcherInit ==
  /\ pc = "matcher"
  /\ PipelineIdle /\ NoEvaluation
  /\ PlannerIdle /\ RunnerIdle /\ ExecutorIdle /\ ExecIdle
  /\ ScorerIdle /\ ConfigIdle /\ AskIdle /\ ServerIdle /\ DeviceIdle
  /\ protIn \in [pattern : GlobPatterns, path : GlobPaths]
  /\ protOut = <<>>

MatcherNext == IsFileProtected

MatcherSpec == MatcherInit /\ [][MatcherNext]_vars

\* the matching the configuration documents: '*' any run of characters,
\* '?' exactly one character, every other character itself
RECURSIVE GlobMatch(_, _)
GlobMatch(pattern, path) ==
  IF pattern = <<>> THEN path = <<>>
  ELSE IF Head(pattern) = "*"
    THEN \/ GlobMatch(Tail(pattern), path)
         \/ path # <<>> /\ GlobMatch(pattern, Tail(path))
  ELSE IF Head(pattern) = "?"
    THEN path # <<>> /\ GlobMatch(Tail(pattern), Tail(path))
  ELSE /\ path # <<>> /\ Head(path) = Head(pattern)
       /\ GlobMatch(Tail(pattern), Tail(path))
HasWildcard(pattern) == includes(pattern, "*") \/ includes(pattern, "?")
PatternMatches(pattern, path) ==
  IF HasWildcard(pattern) THEN GlobMatch(pattern, path)
  ELSE path = pattern \/ startsWith(path, pattern)

\* C31: isFileProtected is true exactly when the pattern matches the path,
\* where '*' matches any run of characters, '?' exactly one character,
\* every other character only itself, and a pattern without wildcards
\* matches when it equals the path or is a prefix of it.
C31_GlobMatching ==
  pc = "matched" => protOut = PatternMatches(protIn.pattern, protIn.path)


\* C32: every started run ends with persisted status done or failed: once
\* runPipeline has settled (and its caller has handled the outcome), the
\* run's row is not left in a non-terminal status, including when a
\* persistence write fails during failure handling.
C32_EndsTerminal == (pc = "end" /\ row.exists) => row.status \in Terminal


InBlockers(name) ==
  \E i \in 1..Len(policyResult.blockers) : policyResult.blockers[i] = name

\* C33: in any run whose self-review holds at least one critical issue, the
\* policy result has passed=false with the No Critical Issues message among
\* the blockers, and no commit, push or pull request is made, whatever the
\* confidence score and the test and lint results.
C33_CriticalBlocks ==
  review.critical > 0 =>
    /\ ~policyResult.passed /\ InBlockers("No Critical Issues")
    /\ NoPublication /\ prs = <<>>

\* a run with a critical issue ended although its score and tests passed
C33_Witness ==
  /\ pc = "end" /\ review.critical > 0
  /\ confidenceScore >= havocConfig.min_confidence
  /\ testResults.ran /\ testResults.passed /\ lintResults.passed
  /\ policyResult.blockers = <<"No Critical Issues">>
  /\ row.status = "failed" /\ NoPublication


CyclicPlan == <<PlanTask(1, <<2>>), PlanTask(2, <<1>>)>>

\* C34: for any task list, including ones with cyclic, self-referencing,
\* forward or missing dependencies, sortTasks returns a list in which no
\* task id occurs twice and every element is a task of the input; a
\* dependency id that names no task adds nothing, and when ids are unique
\* every input task is returned.
C34_SortTasksTotal ==
  pc = "sorted" =>
    /\ UniqueIds(sortedTasks)
    /\ \A i \in 1..Len(sortedTasks) :
         \E j \in 1..Len(planTasks) : planTasks[j] = sortedTasks[i]
    /\ UniqueIds(planTasks) =>
         /\ Len(sortedTasks) = Len(planTasks)
         /\ \A j \in 1..Len(planTasks) :
              \E i \in 1..Len(sortedTasks) : sortedTasks[i] = planTasks[j]

\* a two-task cycle was sorted, each task once
C34_Witness ==
  /\ pc = "sorted" /\ planTasks = CyclicPlan
  /\ sortedTasks = <<PlanTask(2, <<1>>), PlanTask(1, <<2>>)>>


\* the step executed a delete task on an unprotected file under the default
\* allowed_commands
DeletedUnderDefaults ==
  /\ pc = "executor" /\ taskIdx <= Len(tasks)
  /\ tasks[taskIdx].type = "delete" /\ ~Protected(tasks[taskIdx])
  /\ allowed_commands = DEFAULT_allowed_commands
  /\ Len(taskResults') > Len(taskResults)

\* C35: executing a delete task on an unprotected file under the default
\* configuration runs the removal in the sandbox and records success=true,
\* action='deleted'; if the removal fails the result is success=false,
\* action='skipped' with the command's error text, and no exception is
\* thrown.
C35_DeleteRemoves ==
  [][DeletedUnderDefaults =>
       LET task == tasks[taskIdx]
           r == taskResults'[Len(taskResults) + 1]
       IN /\ OpNames(NewOps) = <<"run">>
          /\ \/ r = DoneResult(task, "deleted", "deleted")
             \/ r \in {SkippedResult(task, e) : e \in Stderrs}]_vars


\* C36: a pull request exists for a run if and only if the run's final
\* persisted status is done: whenever the final status is failed, nothing
\* was pushed and no pull request was opened for that run.
C36_PullRequestIffDone ==
  pc = "end" =>
    /\ (prs # <<>>) <=> (row.status = "done")
    /\ row.status = "failed" => ~Returned("push", "")


\* C37: a run posts at most one failure comment on the originating issue, on
\* every failure path and also when a persistence write or a comment call
\* fails after a failure comment has been posted.
C37_OneFailureComment == Len(issueComments) <= 1


\* C38: in the publish branch the push of the branch and createPullRequest
\* are invoked only if the commit in the sandbox returned exit code 0; a
\* failed commit makes the run end failed without pushing and without
\* opening a pull request.
C38_CommitChecked ==
  /\ (Invoked("push") \/ Invoked("createPullRequest")) =>
       FirstAt("commit", "", {"ok"}) > 0
  /\ (pc = "end" /\ FirstAt("commit", "", {"nonzero"}) > 0) =>
       row.status = "failed" /\ prs = <<>>


\* the tests ran and no counts could be parsed from their output
RanUnparsed(installExit, testExit) ==
  installExit = 0 /\ testResults = runTests(installExit, testExit, NoCounts)

\* C39: if tests ran but no counts could be parsed from their output
\* (total = 0), pass_rate is 0 and, for a min_test_pass_rate above 0, the
\* Test Pass Rate gate fails and no pull request is opened, even when the
\* test command exited with code 0 (TestResults.passed = true).
C39_UnparsedTestsBlock ==
  \A testExit \in {0, 1} :
    (RanUnparsed(0, testExit) /\ havocConfig.min_test_pass_rate > 0) =>
      /\ testResults.ran /\ testResults.pass_rate = 0
      /\ PolicyEvaluated =>
           ~policyResult.passed /\ InBlockers("Test Pass Rate")
      /\ NoPublication /\ prs = <<>>

\* a run whose test command exited 0 without parsable counts ended failed
\* on the test gate alone
C39_Witness ==
  /\ pc = "end" /\ RanUnparsed(0, 0) /\ testResults.passed
  /\ policyResult.blockers = <<"Test Pass Rate">>
  /\ row.status = "failed" /\ row.error = PolicyNotPassed
  /\ NoPublication


\* ------------------------------------------- device-code authentication
\* device codes are numbered in creation order (nanoid(32) never repeats);
\* time passes in ticks and a code lives ExpiryTicks of them
MaxCodes == 2
MaxNow == 3
ExpiryTicks == 1
DeviceUsers == {"alice", "bob"}

\* an entry pendingAuths does not hold (never set, or deleted)
NoAuth ==
  [present |-> FALSE, expiresAt |-> 0, userId |-> NULL, status |-> "none"]
NoAuthorization == [userId |-> NULL, inTime |-> FALSE]
pendingAuthsGet(auths, deviceCode) ==
  IF deviceCode \in 1..Len(auths) THEN auths[deviceCode] ELSE NoAuth

\* lines 167-174
cleanupExpiredCodes(auths, t) ==
  [c \in 1..Len(auths) |->
     IF auths[c].present /\ t > auths[c].expiresAt THEN NoAuth ELSE auths[c]]

\* lines 24-50: the map after createDeviceCode
createDeviceCode(auths, t) ==
  cleanupExpiredCodes(
    Append(auths, [present |-> TRUE, expiresAt |-> t + ExpiryTicks,
                   userId |-> NULL, status |-> "pending"]), t)

\* lines 84-97: the value returned and the map afterwards
authorizeDeviceCode(auths, deviceCode, userId, t) ==
  LET auth == pendingAuthsGet(auths, deviceCode) IN
  IF ~auth.present \/ auth.status # "pending"
  THEN [ok |-> FALSE, auths |-> auths]
  ELSE IF t > auth.expiresAt
  THEN [ok |-> FALSE,
        auths |-> [auths EXCEPT ![deviceCode].status = "expired"]]
  ELSE [ok |-> TRUE,
        auths |-> [auths EXCEPT ![deviceCode].userId = userId,
                                ![deviceCode].status = "authorized"]]

PollReturn(status, userId, auths) ==
  [status |-> status, issued |-> userId # NULL, userId |-> userId,
   auths |-> auths]

\* variant: the pending auth is kept after the token was issued
pollDeviceCode_KeepsPending(auths, deviceCode, t) ==
  LET auth == pendingAuthsGet(auths, deviceCode) IN
  IF ~auth.present THEN PollReturn("expired", NULL, auths)
  ELSE IF t > auth.expiresAt
  THEN PollReturn("expired", NULL,
                  [auths EXCEPT ![deviceCode].status = "expired"])
  ELSE IF auth.status = "authorized" /\ auth.userId # NULL
  THEN PollReturn("authorized", auth.userId, auths)
  ELSE PollReturn(auth.status, NULL, auths)

\* lines 102-131: the status returned, the user of the access token issued
\* (NULL: none) and the map afterwards
pollDeviceCode(auths, deviceCode, t) ==
  LET auth == pendingAuthsGet(auths, deviceCode) IN
  IF ~auth.present THEN PollReturn("expired", NULL, auths)
  ELSE IF t > auth.expiresAt
  THEN PollReturn("expired", NULL,
                  [auths EXCEPT ![deviceCode].status = "expired"])
  ELSE IF auth.status = "authorized" /\ auth.userId # NULL
  THEN PollReturn("authorized", auth.userId,
                  [auths EXCEPT ![deviceCode] = NoAuth])
  ELSE PollReturn(auth.status, NULL, auths)

DeviceRest ==
  <<pipelinev, plannerv, runnerv, executorv, execv, scorerv, configv, askv,
    serverv, protv>>

\* POST /api/auth/device
CreateDeviceCode ==
  /\ pc = "device" /\ Len(pendingAuths) < MaxCodes
  /\ pendingAuths' = createDeviceCode(pendingAuths, now)
  /\ authorizedAt' = Append(authorizedAt, NoAuthorization)
  /\ UNCHANGED <<pc, DeviceRest, now, accessTokens, reportedExpired,
                 lastLookup>>

\* the web UI authorizes a code for the logged-in user
AuthorizeDeviceCode ==
  /\ pc = "device"
  /\ \E deviceCode \in 1..MaxCodes, userId \in DeviceUsers :
       LET r == authorizeDeviceCode(pendingAuths, deviceCode, userId, now)
       IN /\ pendingAuths' = r.auths
          /\ authorizedAt' =
               IF r.ok
               THEN [authorizedAt EXCEPT
                       ![deviceCode] =
                         [userId |-> userId,
                          inTime |->
                            now <= pendingAuths[deviceCode].expiresAt]]
               ELSE authorizedAt
  /\ UNCHANGED <<pc, DeviceRest, now, accessTokens, reportedExpired,
                 lastLookup>>

\* the CLI polls; accessTokens.set for an issued token (line 119)
PollDeviceCode ==
  /\ pc = "device" /\ Len(accessTokens) <= MaxCodes
  /\ \E deviceCode \in 1..MaxCodes :
       LET r == pollDeviceCode(pendingAuths, deviceCode, now) IN
       /\ pendingAuths' = r.auths
       /\ accessTokens' =
            IF r.issued
            THEN Append(accessTokens,
                        [deviceCode |-> deviceCode, userId |-> r.userId,
                         live |-> TRUE])
            ELSE accessTokens
       /\ reportedExpired' =
            IF r.status = "expired" /\ deviceCode <= Len(pendingAuths)
            THEN reportedExpired \cup {deviceCode} ELSE reportedExpired
  /\ UNCHANGED <<pc, DeviceRest, now, authorizedAt, lastLookup>>

\* lines 68-79, for the user code of a pending device code: an expired
\* entry is marked and null is returned
GetPendingAuthByUserCode ==
  /\ pc = "device"
  /\ \E deviceCode \in 1..Len(pendingAuths) :
       /\ pendingAuths[deviceCode].status = "pending"
       /\ IF now > pendingAuths[deviceCode].expiresAt
          THEN /\ pendingAuths' =
                    [pendingAuths EXCEPT ![deviceCode].status = "expired"]
               /\ lastLookup' = "null"
          ELSE /\ pendingAuths' = pendingAuths
               /\ lastLookup' = "auth"
  /\ UNCHANGED <<pc, DeviceRest, now, accessTokens, authorizedAt,
                 reportedExpired>>

\* lines 147-149
RevokeAccessToken ==
  /\ pc = "device"
  /\ \E token \in 1..Len(accessTokens) :
       /\ accessTokens[token].live
       /\ accessTokens' = [accessTokens EXCEPT ![token].live = FALSE]
  /\ UNCHANGED <<pc, DeviceRest, now, pendingAuths, authorizedAt,
                 reportedExpired, lastLookup>>

\* Date.now() advances
Tick ==
  /\ pc = "device" /\ now < MaxNow
  /\ now' = now + 1
  /\ UNCHANGED <<pc, DeviceRest, pendingAuths, accessTokens, authorizedAt,
                 reportedExpired, lastLookup>>

DeviceInit ==
  /\ pc = "device"
  /\ PipelineIdle /\ NoEvaluation
  /\ PlannerIdle /\ RunnerIdle /\ ExecutorIdle /\ ExecIdle
  /\ ScorerIdle /\ ConfigIdle /\ AskIdle /\ ServerIdle /\ ProtIdle
  /\ DeviceIdle

DeviceNext ==
  \/ CreateDeviceCode \/ AuthorizeDeviceCode \/ PollDeviceCode
  \/ GetPendingAuthByUserCode \/ RevokeAccessToken \/ Tick

DeviceSpec == DeviceInit /\ [][DeviceNext]_vars

\* every token was issued for a code authorized before its expiry, to the
\* user who authorized it, and no code has two tokens
TokensSound ==
  /\ \A i \in 1..Len(accessTokens) :
       LET token == accessTokens[i]
           a == authorizedAt[token.deviceCode]
       IN a.userId # NULL /\ token.userId = a.userId /\ a.inTime
  /\ \A i, j \in 1..Len(accessTokens) :
       accessTokens[i].deviceCode = accessTokens[j].deviceCode => i = j

\* no code is authorized after a poll reported it expired
AuthorizedFresh ==
  \A c \in 1..Len(authorizedAt) :
    authorizedAt'[c] # authorizedAt[c] => c \notin reportedExpired

\* C40: under any interleaving of createDeviceCode, authorizeDeviceCode and
\* pollDeviceCode calls and the passage of time, pollDeviceCode returns an
\* access token for a device code only if authorizeDeviceCode succeeded for
\* that code before its expiry, the token is bound to the authorizing user,
\* at most one access token is ever issued per device code, and a code that
\* has been reported expired is never authorized afterwards.
C40_DeviceFlow == []TokensSound /\ [][AuthorizedFresh]_vars

\* every code was created; one got its token for its authorizing user,
\* and afterwards every code was reported expired
C40_Witness ==
  /\ pc = "device" /\ Len(pendingAuths) = MaxCodes
  /\ Len(accessTokens) = 1
  /\ accessTokens[1].userId = "bob"
  /\ authorizedAt[accessTokens[1].deviceCode].userId = "bob"
  /\ reportedExpired = 1..MaxCodes

====
